---- MODULE Spec2Model ----
(***************************************************************************)
(* Model of kumbuka's transcription pipeline (src/kumbuka/transcriber.py): *)
(* transcribe, _transcribe_chunked, _restart_whisper, _is_hallucination.   *)
(* Texts are sequences of one-character strings.                           *)
(***************************************************************************)
EXTENDS Integers, Sequences, FiniteSets, TLC

\* ------------------------------------------------------------------ bounds
\* Largest number of chunks the segmenter produces in the model.
MaxChunks == 3
\* Largest number of copies of the first line of a detector input.
MaxRep == 10
\* Largest number of copies of the second line of a detector input.
MaxTail == 5
\* Largest number of consecutive calls of _restart_whisper.
MaxRestartCalls == 2
\* Largest number of audio blocks the callback delivers in one recording.
MaxBlocks == 3
\* Largest value of the clock, in seconds.
MaxTime == 25
\* Largest number of SIGINTs delivered to one recording.
MaxSigints == 2
\* Number of sessions the recordings directory can hold files of.
MaxSessions == 2
\* Largest number of consecutive calls of recover_partial.
MaxRecovers == 2
\* Largest number of lines of the env file.
MaxLines == 3
\* Largest number of events one check_meetings run finds.
MaxEvents == 2
\* Largest number of lines of the content given to _text_to_blocks.
MaxContentLines == 2
\* Days the monitor's clock runs.
MaxDays == 2

\* ------------------------------------------------------- program constants
CHUNK_DURATION_SECS == 600
MIN_TEXT_LEN == 100
MIN_LINES == 5
MIN_TOKENS == 5
MAX_TOKEN_INNER == 40
HEALTH_POLLS == 10
SETTLE_SECS == 2
POLL_INTERVAL_SECS == 1
HEALTH_TIMEOUT_SECS == 2
SAVE_INTERVAL_SECS == 10
DAY_SECS == 86400
DEFAULT_MAX_DURATION == 7200

\* Python's None for a session id; the ids of the sessions are 1, 2, ...
SessionNone == 0

\* exit status of a command that has not ended
StillRunning == -1

\* the clock advances in steps of half a save interval
TickSecs == SAVE_INTERVAL_SECS \div 2

\* Python's None for a str | None value: a sequence no text can equal,
\* because every element of a text is a single character.
None == <<"None">>
\* Absence of the {session}.txt file.
NoFile == <<"NoFile">>
\* Python's None for the float | None returned by _get_audio_duration.
DurationNone == -1

Min(a, b) == IF a < b THEN a ELSE b

RECURSIVE Repeat(_, _)
Repeat(s, n) == IF n = 0 THEN <<>> ELSE s \o Repeat(s, n - 1)

\* ------------------------------------------------------------ str helpers
IsSpace(c) == c \in {" ", "\n", "\t", "\r"}

\* number of whitespace characters at the start of s[lo..hi]
RECURSIVE LeadingIn(_, _, _)
LeadingIn(s, lo, hi) ==
    IF lo > hi THEN 0
    ELSE IF lo = hi THEN (IF IsSpace(s[lo]) THEN 1 ELSE 0)
    ELSE LET mid == (lo + hi) \div 2
             l == LeadingIn(s, lo, mid)
         IN IF l = mid - lo + 1 THEN l + LeadingIn(s, mid + 1, hi) ELSE l

\* number of whitespace characters at the end of s[lo..hi]
RECURSIVE TrailingIn(_, _, _)
TrailingIn(s, lo, hi) ==
    IF lo > hi THEN 0
    ELSE IF lo = hi THEN (IF IsSpace(s[lo]) THEN 1 ELSE 0)
    ELSE LET mid == (lo + hi) \div 2
             t == TrailingIn(s, mid + 1, hi)
         IN IF t = hi - mid THEN t + TrailingIn(s, lo, mid) ELSE t

LeadingSpaces(s) == LeadingIn(s, 1, Len(s))
TrailingSpaces(s) == TrailingIn(s, 1, Len(s))

\* str.strip()
Strip(s) ==
    LET a == LeadingSpaces(s)
        b == TrailingSpaces(s)
    IN IF a = Len(s) THEN <<>> ELSE SubSeq(s, a + 1, Len(s) - b)

\* the pieces of s[lo..hi] between separators
RECURSIVE SplitIn(_, _, _, _)
SplitIn(s, sep, lo, hi) ==
    IF lo > hi THEN << <<>> >>
    ELSE IF lo = hi
         THEN (IF s[lo] = sep THEN << <<>>, <<>> >> ELSE << <<s[lo]>> >>)
    ELSE LET mid == (lo + hi) \div 2
             a == SplitIn(s, sep, lo, mid)
             b == SplitIn(s, sep, mid + 1, hi)
         IN SubSeq(a, 1, Len(a) - 1) \o << a[Len(a)] \o b[1] >> \o Tail(b)

\* str.split(sep) for a one-character separator
Split(s, sep) == SplitIn(s, sep, 1, Len(s))

\* Counter(xs).most_common(1)[0][1]
MostCommonCount(xs) ==
    LET cnt(i) == Cardinality({j \in 1..Len(xs) : xs[j] = xs[i]})
    IN CHOOSE m \in 0..Len(xs) :
          /\ \A i \in 1..Len(xs) : cnt(i) <= m
          /\ (m = 0 /\ Len(xs) = 0) \/ (\E i \in 1..Len(xs) : cnt(i) = m)

\* [l.strip() for l in text.strip().split('\n') if l.strip()]
NonEmptyLines(text) ==
    LET raw == Split(Strip(text), "\n")
        stripped == [i \in 1..Len(raw) |-> Strip(raw[i])]
    IN SelectSeq(stripped, LAMBDA l : l # <<>>)

\* first index in lo..hi where s holds c, or 0
RECURSIVE FirstIn(_, _, _, _)
FirstIn(s, c, lo, hi) ==
    IF lo > hi THEN 0
    ELSE IF lo = hi THEN (IF s[lo] = c THEN lo ELSE 0)
    ELSE LET mid == (lo + hi) \div 2
             l == FirstIn(s, c, lo, mid)
         IN IF l # 0 THEN l ELSE FirstIn(s, c, mid + 1, hi)

\* Does  open \s* [^close]{1,40} \s* close  match text[i..j], where j is the
\* first close after i?  The inner part has k characters, none of them close.
TokenMatches(text, i, j) ==
    LET inner == SubSeq(text, i + 1, j - 1)
        k == Len(inner)
        lead == LeadingSpaces(inner)
        trail == TrailingSpaces(inner)
    IN k >= 1 /\ k - Min(lead + trail, k - 1) <= MAX_TOKEN_INNER

\* the scan of re.findall from position i: the next candidate start is the
\* next open character; a match consumes up to its close, a failed candidate
\* is skipped
RECURSIVE FindFrom(_, _, _, _, _)
FindFrom(text, open, close, i, acc) ==
    LET o == FirstIn(text, open, i, Len(text))
    IN IF o = 0 THEN acc
       ELSE LET j == FirstIn(text, close, o + 1, Len(text))
            IN IF j # 0 /\ TokenMatches(text, o, j)
               THEN FindFrom(text, open, close, j + 1,
                             Append(acc, SubSeq(text, o, j)))
               ELSE FindFrom(text, open, close, o + 1, acc)

\* re.findall(r'<open>\s*[^<close>]{1,40}\s*<close>', text)
FindTokens(text, open, close) == FindFrom(text, open, close, 1, <<>>)

\* slip: exactly five tokens are not enough
TokenCheck_gt(tokens) ==
    /\ Len(tokens) > MIN_TOKENS
    /\ MostCommonCount(tokens) >= MIN_TOKENS
    /\ 2 * MostCommonCount(tokens) > Len(tokens)

\* len(tokens) >= 5 and most_common >= 5 and most_common / len(tokens) > 0.5
TokenCheck(tokens) ==
    /\ Len(tokens) >= MIN_TOKENS
    /\ MostCommonCount(tokens) >= MIN_TOKENS
    /\ 2 * MostCommonCount(tokens) > Len(tokens)

\* slip: a share of exactly 80% already counts
LineCheck_geq(lines) == 5 * MostCommonCount(lines) >= 4 * Len(lines)

\* slip: the comparison is turned around
LineCheck_lt(lines) == 5 * MostCommonCount(lines) < 4 * Len(lines)

\* most_common_count / len(lines) > 0.8
LineCheck(lines) == 5 * MostCommonCount(lines) > 4 * Len(lines)

\* slip: the length gate is missing
_is_hallucination_nolen(text) ==
    LET lines == NonEmptyLines(text)
    IN IF Len(lines) < MIN_LINES THEN FALSE
       ELSE \/ LineCheck(lines)
            \/ TokenCheck(FindTokens(text, "[", "]"))
            \/ TokenCheck(FindTokens(text, "(", ")"))

\* slip: the line-count gate is missing
_is_hallucination_nolines(text) ==
    IF Len(text) < MIN_TEXT_LEN THEN FALSE
    ELSE LET lines == NonEmptyLines(text)
         IN \/ LineCheck(lines)
            \/ TokenCheck(FindTokens(text, "[", "]"))
            \/ TokenCheck(FindTokens(text, "(", ")"))

_is_hallucination(text) ==
    IF Len(text) < MIN_TEXT_LEN THEN FALSE
    ELSE LET lines == NonEmptyLines(text)
         IN IF Len(lines) < MIN_LINES THEN FALSE
            ELSE \/ LineCheck(lines)
                 \/ TokenCheck(FindTokens(text, "[", "]"))
                 \/ TokenCheck(FindTokens(text, "(", ")"))

\* ------------------------------------------------------------------ texts
\* "[TRANSCRIPTION FAILED - AUDIO SEGMENT UNCLEAR]"
SENTINEL ==
    <<"[", "T", "R", "A", "N", "S", "C", "R", "I", "P", "T", "I", "O", "N",
      " ", "F", "A", "I", "L", "E", "D", " ", "-", " ",
      "A", "U", "D", "I", "O", " ", "S", "E", "G", "M", "E", "N", "T", " ",
      "U", "N", "C", "L", "E", "A", "R", "]">>

NEWLINE == <<"\n">>
ThankYou == <<"T", "h", "a", "n", "k", " ", "y", "o", "u", ".">>
\* ten lines "Thank you." : 110 characters, every line identical
LoopText == Repeat(ThankYou \o NEWLINE, 10)
TextA == <<"h", "i">>
TextB == <<"o", "k">>
\* texts the backend may answer with ("" when the JSON has no text field)
BackendTexts == {<<>>, TextA, TextB, LoopText}

\* five lines "Thank you." : 55 characters, every line identical
FiveThanks == Repeat(ThankYou \o NEWLINE, 5)
\* the answers of a backend stuck on "Thank you."
ScenarioTexts == {TextA, FiveThanks, LoopText}

\* true durations (seconds) of the recordings handed to transcribe
Durations == {0, 300, 900, 901} \cup {CHUNK_DURATION_SECS * MaxChunks}

\* number of chunk_NNN.wav files ffmpeg's segment muxer writes
NumChunks(d) == (d + CHUNK_DURATION_SECS - 1) \div CHUNK_DURATION_SECS

\* -------------------------------------------------------- detector inputs
SP == <<" ">>
Pad(c) == Repeat(<<c>>, 20)
TokX == <<"[", " ", "x", " ", "]">>
TokZ == <<"[", " ", "z", " ", "]">>
TokY == <<"(", "y", ")">>
TokW == <<"(", "w", ")">>

\* A line of a detector input, with what it holds: x, z, y, w count the
\* tokens "[ x ]", "[ z ]", "(y)", "(w)" on the line.
Kind(l, nx, nz, ny, nw) ==
    [line |-> l, x |-> nx, z |-> nz, y |-> ny, w |-> nw]

LineKinds ==
    { Kind(ThankYou, 0, 0, 0, 0),
      Kind(<<"a">>, 0, 0, 0, 0),
      Kind(<<" ", " ">>, 0, 0, 0, 0),
      Kind(TokX \o SP \o Pad("a"), 1, 0, 0, 0),
      Kind(TokX \o SP \o Pad("b"), 1, 0, 0, 0),
      Kind(TokZ \o SP \o Pad("c"), 0, 1, 0, 0),
      Kind(Repeat(TokX \o SP, 6), 6, 0, 0, 0),
      Kind(TokY \o SP \o Pad("a"), 0, 0, 1, 0),
      Kind(TokY \o SP \o Pad("b"), 0, 0, 1, 0),
      Kind(TokW \o SP \o Pad("c"), 0, 0, 0, 1) }

\* m copies of line a followed by n copies of line b
Shapes ==
    [a : LineKinds, m : 0..MaxRep, b : LineKinds, n : 0..MaxTail]

NoShape == [a |-> Kind(<<>>, 0, 0, 0, 0), m |-> 0,
            b |-> Kind(<<>>, 0, 0, 0, 0), n |-> 0]

\* the text of a shape: every line ends with a newline
ShapeText(s) ==
    Repeat(s.a.line \o NEWLINE, s.m) \o Repeat(s.b.line \o NEWLINE, s.n)

\* ------------------------------------------------------- pure pipeline parts
\* Python truthiness of a str | None
Truthy(t) == t # None /\ t # <<>>

\* slip: the boundary D = 1.5 x chunk length also chunks
UseChunked_geq(d) ==
    d # DurationNone /\ d # 0 /\ 2 * d >= 3 * CHUNK_DURATION_SECS

\* if duration and duration > CHUNK_DURATION_SECS * 1.5
UseChunked(d) ==
    d # DurationNone /\ d # 0 /\ 2 * d > 3 * CHUNK_DURATION_SECS

RECURSIVE JoinFrom(_, _)
JoinFrom(ts, i) ==
    IF i > Len(ts) THEN <<>>
    ELSE IF i = Len(ts) THEN ts[i]
    ELSE ts[i] \o NEWLINE \o NEWLINE \o JoinFrom(ts, i + 1)

\* slip: later chunks are put in front of earlier ones
RECURSIVE JoinBack(_, _)
JoinBack(ts, i) ==
    IF i < 1 THEN <<>>
    ELSE IF i = 1 THEN ts[i]
    ELSE ts[i] \o NEWLINE \o NEWLINE \o JoinBack(ts, i - 1)

Combine_reversed(ts) ==
    LET kept == SelectSeq(ts, Truthy) IN JoinBack(kept, Len(kept))

\* "\n\n".join(t for t in transcripts if t)
Combine(ts) == JoinFrom(SelectSeq(ts, Truthy), 1)

\* slip: the first pass keeps the flagged text
FirstPassEntry_keep(text) == text

\* what the first pass appends for a chunk
FirstPassEntry(text) == IF _is_hallucination(text) THEN None ELSE text

\* slip: a chunk still flagged after the restart keeps its None entry
RetryEntry_none(text) == IF _is_hallucination(text) THEN None ELSE text

\* what the retry pass stores for a chunk
RetryEntry(text) == IF _is_hallucination(text) THEN SENTINEL ELSE text

\* slip: the restart does not wait for a flagged chunk
ChunkRetryWanted_always(failed, flag) == flag

\* if failed_chunks and retry_on_hallucination
ChunkRetryWanted(failed, flag) == failed # <<>> /\ flag

\* slip: the test of WHISPER_CMD is missing
CmdConfigured_any(cmd) == TRUE

\* if not WHISPER_CMD: ... return False
CmdConfigured(cmd) == cmd

\* slip: a healthy answer does not end the polling
PollVerdict_late(healthy, made) ==
    IF made < HEALTH_POLLS THEN "again"
    ELSE IF healthy THEN "success" ELSE "failure"

\* what the polling loop does after its made-th poll
PollVerdict(healthy, made) ==
    IF healthy THEN "success"
    ELSE IF made = HEALTH_POLLS THEN "failure" ELSE "again"

\* slip: the retry loop ends after the first failed chunk
RetryDone_first(idx, failed) == TRUE

\* the retry loop has handled the last entry of failed_chunks
RetryDone(idx, failed) == idx = Len(failed)

\* slip: the POST does not wait for its answer
InFlightAfterReply_async(units, u) == units

\* _transcribe_single blocks until the answer (or the failure) of its POST
InFlightAfterReply(units, u) == units \ {u}

\* slip: a health check that ran into its timeout is tried a second time
PollSecs_twice(d) == POLL_INTERVAL_SECS + d + d

\* time.sleep(1) and a check_whisper() that takes d seconds
PollSecs(d) == POLL_INTERVAL_SECS + d

\* slip: a failed split falls back to transcribing the whole audio
PcOnSegmentationError_fallback == "single"

\* where control goes when _chunk_audio raises
PcOnSegmentationError == "chunked_finally"

\* slip: the recursive call keeps the retry enabled
InnerRetryFlag_on == TRUE

\* the flag the recursive call is made with
InnerRetryFlag == FALSE

\* slip: the flagged text is handed back to the caller
FlaggedResult_text(text) == text

\* value returned for a flagged text on the direct path
FlaggedResult(text) == None

\* slip: the text is saved before the verdict is looked at
DirectWrites_always(text, flagged) == text # <<>>

\* is {session}.txt written for this text on the direct path
DirectWrites(text, flagged) == ~flagged /\ text # <<>>

\* slip: the temp file is removed after the return, not in a finally block
TmpFilesAfterUnlink_noexc(files, d, e) ==
    IF e = "none" THEN files \ {d} ELSE files

\* finally: tmp_path.unlink(missing_ok=True) of the frame at depth d
TmpFilesAfterUnlink(files, d, e) == files \ {d}

\* slip: cleanup after the return instead of in a finally block
FilesAfterCleanup_noexc(files, e) == IF e = "none" THEN {} ELSE files

\* the finally block of _transcribe_chunked: files left in the chunk dir
FilesAfterCleanup(files, e) == {}

\* slip: a transport failure is treated like a hallucination
PcOnTransportError_restart(inChunked) == "restart"

\* where control goes when _transcribe_single raises
PcOnTransportError(inChunked) ==
    IF inChunked THEN "chunked_finally" ELSE "finally"

\* ------------------------------------------------------------------ state
VARIABLES
    WHISPER_CMD,            \* TRUE iff a restart command is configured
    wavDuration,            \* true duration of the wav given to transcribe
    pc,                     \* position of the (single-threaded) call chain
    depth,                  \* number of active transcribe frames
    retry_on_hallucination, \* the flag of the innermost frame
    calls,                  \* history: the flag of every transcribe call made
    probed,                 \* history: what _get_audio_duration returned
    path,                   \* history: "direct" / "chunked", per call
    tmpFiles,               \* temp wav files on disk (one per frame)
    text,                   \* local text of the direct path
    chunks,                 \* sorted list of chunk files
    transcripts,
    failed_chunks,
    retryIdx,               \* position in failed_chunks of the retry loop
    chunkDirExists,
    chunkFiles,             \* files in {session}_chunks
    txtFile,                \* content of {session}.txt, or NoFile
    txtWrites,              \* number of writes of {session}.txt
    result,                 \* value returned by the innermost finished frame
    exc,                    \* exception in flight: "none", "transport",
                            \* "segmentation"
    requests,               \* history: every POST made, with its reply
    restarts,               \* number of _restart_whisper invocations
    restartOk,              \* return value of the last _restart_whisper
    polls,                  \* health polls made by the current restart
    restartLog,             \* history: steps of _restart_whisper
    backendTexts,           \* texts the backend can answer with in this run
    healthDelays,           \* seconds a health check can take in this run
    procFaults,             \* TRUE iff pkill can fail to end the backend and
                            \* a launched backend can exit at once
    whisperProcs,           \* number of running whisper-server processes
    restartSecs,            \* seconds spent so far in _restart_whisper
    inFlight,               \* units whose POST is sent and not yet answered
    recPc,                  \* position of record() / the recorder process
    MAX_DURATION,
    _stop_event,
    _chunks,                \* the blocks appended by the callback
    _chunks_lock,           \* who holds the lock: "free", "main", "callback"
    cbPc,                   \* position of the audio callback
    session,                \* session id of the recording (0: none yet)
    sigintHandler,          \* "default" or "_on_signal"
    now,                    \* the clock, in seconds
    start,
    last_save_time,
    elapsed,
    chunks_copy,            \* the copy taken by _save_incremental
    final,                  \* the final argument of _save_incremental
    wav,                    \* blocks of the WAV built at line 222
    partialFile,            \* per session: content of {session}.partial.wav
    partialMtime,           \* per session: its modification time
    finalFile,              \* per session: content of {session}.wav
    sigints,                \* number of SIGINTs delivered
    recResult,              \* what record() returned
    recExc,                 \* exception record() ended with
    recoverLog,             \* history: argument and result of recover_partial
    saved,                  \* blocks the last completed write put in the partial
    detShape,               \* how the text given to the detector was built
    detText,                \* the text given to _is_hallucination
    mainPc,                 \* position of do_record / do_recover
    command,                \* "record" or "recover"
    cmdWav,                 \* the wav record() or recover_partial() returned
    cmdSession,             \* the session it returned
    transcript,             \* what transcribe returned
    claudeResult,           \* what process_with_claude returned
    exitStatus,             \* exit status of the command (-1: still running)
    mainLog,                \* history: the functions the command called
    renPc,                  \* position of _rename_session_files
    renSession,             \* its session argument
    renFilename,            \* its filename argument
    dirFiles,               \* TEMP_DIR: content of every file name, or NoFile
    dirBefore,              \* TEMP_DIR when _rename_session_files was called
    envPc,                  \* position of config_set
    envKey,                 \* its key argument
    envValue,               \* its value argument
    envExists,              \* ENV_FILE exists
    envLines,               \* the lines of ENV_FILE
    envBefore,              \* the lines of ENV_FILE when config_set was called
    envExit,                \* exit status of config set (-1: still running)
    monPc,                  \* position of check_meetings
    monNow,                 \* datetime.now().timestamp()
    promptedExists,         \* PROMPTED_FILE exists
    promptedData,           \* the dict stored in PROMPTED_FILE, as a set of items
    events,                 \* the events of the run
    evIdx,                  \* index of the event the loop is at
    prompted,               \* the set prompted of the run
    loaded,                 \* what load_prompted returned to the run
    runLog,                 \* ids whose dialog was shown in the run
    answers,                \* outcomes of those dialogs
    started,                \* calls of start_recording in the run
    shownTimes,             \* per id, the times its dialog was shown
    notionPc,               \* position of the call of _text_to_blocks
    notionContent,          \* its argument, as a list of lines
    notionBlocks,           \* the blocks it returned
    detVerdict              \* what _is_hallucination returned for it

vars == <<WHISPER_CMD, wavDuration, pc, depth, retry_on_hallucination, calls,
          probed, path, tmpFiles, text, chunks, transcripts, failed_chunks,
          retryIdx, chunkDirExists, chunkFiles, txtFile, txtWrites, result,
          exc, requests, restarts, restartOk, polls, restartLog,
          backendTexts, detShape, detText, detVerdict, healthDelays,
          procFaults, whisperProcs, restartSecs, inFlight, recPc,
          MAX_DURATION, _stop_event, _chunks, session, sigintHandler, now,
          start, last_save_time, elapsed, chunks_copy, final, wav,
          partialFile, partialMtime, finalFile, sigints, recResult, recExc,
          recoverLog, saved, _chunks_lock, cbPc,
          mainPc, command, cmdWav, cmdSession, transcript, claudeResult, exitStatus, mainLog,
          renPc, renSession, renFilename, dirFiles, dirBefore,
          envPc, envKey, envValue, envExists, envLines, envBefore, envExit,
          monPc, monNow, promptedExists, promptedData, events, evIdx, prompted, loaded, runLog, answers, started, shownTimes,
          notionPc, notionContent, notionBlocks>>

mainVars == <<mainPc, command, cmdWav, cmdSession, transcript, claudeResult, exitStatus, mainLog>>
renVars == <<renPc, renSession, renFilename, dirFiles, dirBefore>>
envVars == <<envPc, envKey, envValue, envExists, envLines, envBefore, envExit>>
monVars == <<monPc, monNow, promptedExists, promptedData, events, evIdx, prompted, loaded, runLog, answers, started, shownTimes>>
notionVars == <<notionPc, notionContent, notionBlocks>>
appVars == <<mainVars, renVars, envVars, monVars, notionVars>>

cfgVars == <<WHISPER_CMD, wavDuration, backendTexts, healthDelays, procFaults>>
clockVars == <<now, start, last_save_time, elapsed>>
fileVars == <<partialFile, partialMtime, finalFile>>
cbVars == <<_chunks_lock, cbPc>>
recVars == <<recPc, MAX_DURATION, _stop_event, _chunks, session,
             sigintHandler, clockVars, chunks_copy, final, wav, fileVars,
             sigints, recResult, recExc, recoverLog, saved, cbVars>>
detVars == <<detShape, detText, detVerdict>>
frameVars == <<depth, retry_on_hallucination, calls, tmpFiles>>
pipeVars == <<cfgVars, pc, depth, retry_on_hallucination, calls, probed, path,
              tmpFiles, text, chunks, transcripts, failed_chunks, retryIdx,
              chunkDirExists, chunkFiles, txtFile, txtWrites, result, exc,
              requests, restarts, restartOk, polls, restartLog, whisperProcs,
              restartSecs, inFlight>>
chunkVars == <<chunks, transcripts, failed_chunks, retryIdx>>
dirVars == <<chunkDirExists, chunkFiles>>
txtVars == <<txtFile, txtWrites>>
restartVars == <<restarts, restartOk, polls, restartLog, whisperProcs,
                 restartSecs>>

\* outcome of one POST: a text, or a transport failure (connection error or
\* raise_for_status)
Replies ==
    {[ok |-> TRUE, text |-> t] : t \in backendTexts}
        \cup {[ok |-> FALSE, text |-> <<>>]}

\* no call of transcribe made yet
Quiet ==
    /\ depth = 0
    /\ retry_on_hallucination = TRUE
    /\ calls = <<>>
    /\ probed = <<>>
    /\ path = <<>>
    /\ tmpFiles = {}
    /\ text = <<>>
    /\ chunks = <<>>
    /\ transcripts = <<>>
    /\ failed_chunks = <<>>
    /\ retryIdx = 0
    /\ chunkDirExists = FALSE
    /\ chunkFiles = {}
    /\ txtFile = NoFile
    /\ txtWrites = 0
    /\ result = None
    /\ exc = "none"
    /\ requests = <<>>
    /\ restarts = 0
    /\ restartOk = FALSE
    /\ polls = 0
    /\ restartLog = <<>>
    /\ restartSecs = 0
    /\ inFlight = {}

Idle == pc = "idle" /\ Quiet

\* one backend process runs, pkill ends it, a launched backend stays up, a
\* health check answers at once
SoundBackend ==
    /\ whisperProcs = 1
    /\ healthDelays = {0}
    /\ procFaults = FALSE

Sessions == 1..MaxSessions

\* no recording made yet, an empty recordings directory
RecProcIdle ==
    /\ recPc = "idle"
    /\ _stop_event = FALSE
    /\ _chunks = <<>>
    /\ _chunks_lock = "free"
    /\ cbPc = "idle"
    /\ session = 0
    /\ sigintHandler = "default"
    /\ now = 0
    /\ start = 0
    /\ last_save_time = 0
    /\ elapsed = 0
    /\ chunks_copy = <<>>
    /\ final = FALSE
    /\ wav = <<>>
    /\ sigints = 0
    /\ recResult = <<None, SessionNone>>
    /\ recExc = "none"
    /\ recoverLog = <<>>
    /\ saved = <<>>

\* an empty recordings directory
EmptyDir ==
    /\ partialFile = [s \in Sessions |-> NoFile]
    /\ partialMtime = [s \in Sessions |-> 0]
    /\ finalFile = [s \in Sessions |-> NoFile]

RecQuiet ==
    /\ RecProcIdle
    /\ EmptyDir

\* the recorder with the default KUMBUKA_MAX_RECORDING_SECONDS
RecIdle ==
    /\ MAX_DURATION = DEFAULT_MAX_DURATION
    /\ RecQuiet

\* the names of the session files: f"{session}"
SessionName(n) == <<"session", ToString(n)>>

\* the values of  sanitize_filename(result.get("filename", "")): None, or a
\* name, which can be any text, that of a session included
Filenames == {None, <<"standup">>} \cup {SessionName(n) : n \in Sessions}

\* the extensions _rename_session_files goes through
Exts == <<".wav", ".txt">>

\* f"{session}{ext}",  f"{filename}{ext}",  f"{filename}_{session}{ext}"
OldName(n, ext) == Append(SessionName(n), ext)
NewName(f, ext) == Append(f, ext)
AltName(f, n, ext) == Append(f \o <<"_">> \o SessionName(n), ext)

\* the file names of TEMP_DIR the renaming can touch
FileNames ==
    UNION {{OldName(n, Exts[e]), NewName(f, Exts[e]), AltName(f, n, Exts[e])} :
              n \in Sessions, f \in Filenames \ {None}, e \in 1..2}

\* _rename_session_files is not running, TEMP_DIR is empty
RenameIdle ==
    /\ renPc = "idle"
    /\ renSession = SessionNone
    /\ renFilename = None
    /\ dirFiles = [x \in FileNames |-> NoFile]
    /\ dirBefore = [x \in FileNames |-> NoFile]

\* time a prompted id is remembered (load_prompted)
REMEMBER_SECS == 86400

\* ids of calendar events
EventIds == {"e1", "e2"}

\* the monitor has not run, there is no prompted file
MonIdle ==
    /\ monPc = "idle"
    /\ monNow = 0
    /\ promptedExists = FALSE
    /\ promptedData = {}
    /\ events = <<>>
    /\ evIdx = 0
    /\ prompted = {}
    /\ loaded = {}
    /\ runLog = <<>>
    /\ answers = <<>>
    /\ started = 0
    /\ shownTimes = [id \in EventIds |-> <<>>]

\* _text_to_blocks has not been called
NotionIdle ==
    /\ notionPc = "idle"
    /\ notionContent = <<>>
    /\ notionBlocks = <<>>

\* config set is not running, there is no env file
EnvIdle ==
    /\ envPc = "idle"
    /\ envKey = "none"
    /\ envValue = <<>>
    /\ envExists = FALSE
    /\ envLines = <<>>
    /\ envBefore = <<>>
    /\ envExit = StillRunning

\* no command has been started
MainIdle ==
    /\ mainPc = "idle"
    /\ command = "none"
    /\ cmdWav = None
    /\ cmdSession = SessionNone
    /\ transcript = None
    /\ claudeResult = None
    /\ exitStatus = StillRunning
    /\ mainLog = <<>>

AppIdle ==
    /\ MainIdle
    /\ RenameIdle
    /\ EnvIdle
    /\ MonIdle
    /\ NotionIdle

\* the detector has not been handed a text
DetIdle ==
    /\ detShape = NoShape
    /\ detText = <<>>
    /\ detVerdict = "pending"

Init ==
    /\ WHISPER_CMD \in BOOLEAN
    /\ wavDuration \in Durations
    /\ backendTexts = BackendTexts
    /\ SoundBackend
    /\ Idle
    /\ DetIdle
    /\ AppIdle
    /\ RecIdle

InChunked == path # <<>> /\ path[Len(path)] = "chunked"

\* transcribe(wav, session, retry_on_hallucination): entry, temp file written
Transcribe ==
    /\ pc = "idle"
    /\ \E flag \in BOOLEAN :
          /\ retry_on_hallucination' = flag
          /\ calls' = Append(calls, flag)
    /\ depth' = 1
    /\ tmpFiles' = tmpFiles \cup {1}
    /\ pc' = "probe"
    /\ UNCHANGED <<appVars, cfgVars, detVars, recVars, inFlight, probed, path, text, chunkVars, dirVars, txtVars,
                   result, exc, requests, restartVars>>

\* duration = _get_audio_duration(tmp_path), then the path decision
GetAudioDuration ==
    /\ pc = "probe"
    /\ \E d \in {DurationNone, wavDuration} :
          /\ probed' = Append(probed, d)
          /\ pc' = IF UseChunked(d) THEN "chunk_audio" ELSE "single"
    /\ UNCHANGED <<appVars, cfgVars, detVars, recVars, inFlight, frameVars, path, text, chunkVars, dirVars,
                   txtVars, result, exc, requests, restartVars>>

\* the unit the next POST is for: 0 for the whole audio, else the chunk
NextUnit ==
    IF pc = "single" THEN 0
    ELSE IF pc = "first_pass" THEN chunks[Len(transcripts) + 1]
    ELSE chunks[failed_chunks[retryIdx]]

\* client.post(WHISPER_URL, ...) of _transcribe_single: the request is sent
Post ==
    /\ pc \in {"single", "first_pass", "retry_pass"}
    /\ NextUnit \notin inFlight
    /\ inFlight' = inFlight \cup {NextUnit}
    /\ UNCHANGED <<appVars, cfgVars, detVars, recVars, frameVars, pc, probed, path,
                   text, chunkVars, dirVars, txtVars, result, exc, requests,
                   restartVars>>

\* the answer to the POST: text = _transcribe_single(wav)
TranscribeDirect ==
    /\ pc = "single"
    /\ inFlight = {0}
    /\ inFlight' = InFlightAfterReply(inFlight, 0)
    /\ path' = Append(path, "direct")
    /\ \E r \in Replies :
          /\ requests' = Append(requests, [unit |-> 0, reply |-> r])
          /\ IF r.ok
             THEN /\ text' = r.text
                  /\ pc' = "detect"
                  /\ exc' = exc
             ELSE /\ text' = text
                  /\ pc' = PcOnTransportError(FALSE)
                  /\ exc' = "transport"
    /\ UNCHANGED <<appVars, cfgVars, detVars, recVars, frameVars, probed, chunkVars, dirVars, txtVars,
                   result, restartVars>>

\* if _is_hallucination(text): ... return None / if text: write; return text
DetectDirect ==
    /\ pc = "detect"
    /\ LET flagged == _is_hallucination(text)
       IN /\ IF flagged /\ retry_on_hallucination
             THEN /\ pc' = "restart"
                  /\ result' = result
             ELSE /\ pc' = "finally"
                  /\ result' = IF flagged THEN FlaggedResult(text) ELSE text
          /\ IF DirectWrites(text, flagged)
             THEN /\ txtFile' = text
                  /\ txtWrites' = txtWrites + 1
             ELSE UNCHANGED txtVars
    /\ UNCHANGED <<appVars, cfgVars, detVars, recVars, inFlight, frameVars, probed, path, text, chunkVars, dirVars,
                   exc, requests, restartVars>>

\* _restart_whisper(): entry and the WHISPER_CMD test
RestartWhisper ==
    /\ pc = "restart"
    /\ restarts' = restarts + 1
    /\ polls' = 0
    /\ restartSecs' = 0
    /\ IF CmdConfigured(WHISPER_CMD)
       THEN /\ pc' = "restart_kill"
            /\ restartOk' = restartOk
            /\ restartLog' = <<>>
       ELSE /\ pc' = "after_restart"
            /\ restartOk' = FALSE
            /\ restartLog' = <<"no_cmd">>
    /\ UNCHANGED <<appVars, cfgVars, detVars, recVars, inFlight, frameVars, probed,
                   path, text, chunkVars, dirVars, txtVars, result, exc,
                   requests, whisperProcs>>

\* pkill -f whisper-server (failure swallowed), then time.sleep(2)
RestartKill ==
    /\ pc = "restart_kill"
    /\ \E killed \in (IF procFaults THEN BOOLEAN ELSE {TRUE}) :
          whisperProcs' = IF killed THEN 0 ELSE whisperProcs
    /\ restartLog' = Append(restartLog, "kill") \o <<"sleep">>
    /\ restartSecs' = restartSecs + SETTLE_SECS
    /\ pc' = "restart_launch"
    /\ UNCHANGED <<appVars, cfgVars, detVars, recVars, inFlight, frameVars, probed,
                   path, text, chunkVars, dirVars, txtVars, result, exc,
                   requests, restarts, restartOk, polls>>

\* subprocess.Popen(WHISPER_CMD, shell=True, ...); except: return False
RestartLaunch ==
    /\ pc = "restart_launch"
    /\ \E launched \in BOOLEAN :
          IF launched
          THEN /\ restartLog' = Append(restartLog, "launch")
               /\ pc' = "restart_poll"
               /\ restartOk' = restartOk
               /\ \E stays \in (IF procFaults THEN BOOLEAN ELSE {TRUE}) :
                     whisperProcs' =
                         IF stays THEN whisperProcs + 1 ELSE whisperProcs
          ELSE /\ restartLog' = Append(restartLog, "launch_failed")
               /\ pc' = "after_restart"
               /\ restartOk' = FALSE
               /\ whisperProcs' = whisperProcs
    /\ UNCHANGED <<appVars, cfgVars, detVars, recVars, inFlight, frameVars, probed,
                   path, text, chunkVars, dirVars, txtVars, result, exc,
                   requests, restarts, polls, restartSecs>>

\* one iteration of  for _ in range(10): sleep(1); if check_whisper(): ...
RestartPoll ==
    /\ pc = "restart_poll"
    /\ polls < HEALTH_POLLS
    /\ polls' = polls + 1
    /\ \E d \in healthDelays :
          restartSecs' = restartSecs + PollSecs(d)
    /\ \E healthy \in (IF whisperProcs > 0 THEN BOOLEAN ELSE {FALSE}) :
          /\ restartLog' =
                Append(restartLog, IF healthy THEN "healthy" ELSE "unhealthy")
          /\ LET v == PollVerdict(healthy, polls + 1)
             IN IF v = "again"
                THEN /\ restartOk' = restartOk
                     /\ pc' = "restart_poll"
                ELSE /\ restartOk' = (v = "success")
                     /\ pc' = "after_restart"
    /\ UNCHANGED <<appVars, cfgVars, detVars, recVars, inFlight, frameVars, probed,
                   path, text, chunkVars, dirVars, txtVars, result, exc,
                   requests, restarts, whisperProcs>>

\* direct path:  if _restart_whisper(): return transcribe(wav, session,
\* retry_on_hallucination=False)  else: ... return None
AfterRestartDirect ==
    /\ pc = "after_restart"
    /\ ~InChunked
    /\ IF restartOk
       THEN /\ depth' = depth + 1
            /\ retry_on_hallucination' = InnerRetryFlag
            /\ calls' = Append(calls, InnerRetryFlag)
            /\ tmpFiles' = tmpFiles \cup {depth + 1}
            /\ pc' = "probe"
            /\ result' = result
       ELSE /\ UNCHANGED frameVars
            /\ pc' = "finally"
            /\ result' = None
    /\ UNCHANGED <<appVars, cfgVars, detVars, recVars, inFlight, probed, path, text, chunkVars, dirVars, txtVars,
                   exc, requests, restartVars>>

\* chunk_dir.mkdir(); chunks = _chunk_audio(wav_path, chunk_dir)
ChunkAudio ==
    /\ pc = "chunk_audio"
    /\ path' = Append(path, "chunked")
    /\ chunkDirExists' = TRUE
    /\ LET n == NumChunks(probed[Len(probed)])
       IN \E ok \in BOOLEAN, written \in 0..n :
             /\ ok => written = n
             /\ chunkFiles' = 1..written
             /\ IF ok
                THEN /\ chunks' = [i \in 1..n |-> i]
                     /\ pc' = "first_pass"
                     /\ exc' = exc
                ELSE /\ chunks' = <<>>
                     /\ pc' = PcOnSegmentationError
                     /\ exc' = "segmentation"
    /\ transcripts' = <<>>
    /\ failed_chunks' = <<>>
    /\ retryIdx' = 0
    /\ UNCHANGED <<appVars, cfgVars, detVars, recVars, inFlight, frameVars, probed, text, txtVars, result,
                   requests, restartVars>>

\* one iteration of the first loop over chunks
FirstPass ==
    /\ pc = "first_pass"
    /\ LET i == Len(transcripts) + 1
       IN \E r \in Replies :
             /\ chunks[i] \in inFlight
             /\ inFlight' = InFlightAfterReply(inFlight, chunks[i])
             /\ requests' = Append(requests, [unit |-> chunks[i], reply |-> r])
             /\ IF r.ok
                THEN /\ transcripts' =
                          Append(transcripts, FirstPassEntry(r.text))
                     /\ failed_chunks' =
                          IF _is_hallucination(r.text)
                          THEN Append(failed_chunks, i) ELSE failed_chunks
                     /\ pc' = IF i = Len(chunks)
                              THEN "retry_check" ELSE "first_pass"
                     /\ exc' = exc
                ELSE /\ UNCHANGED <<transcripts, failed_chunks>>
                     /\ pc' = PcOnTransportError(TRUE)
                     /\ exc' = "transport"
    /\ UNCHANGED <<appVars, cfgVars, detVars, recVars, frameVars, probed, path, text, chunks, retryIdx,
                   dirVars, txtVars, result, restartVars>>

\* if failed_chunks and retry_on_hallucination:
RetryCheck ==
    /\ pc = "retry_check"
    /\ pc' = IF ChunkRetryWanted(failed_chunks, retry_on_hallucination)
             THEN "restart" ELSE "combine"
    /\ UNCHANGED <<appVars, cfgVars, detVars, recVars, inFlight, frameVars, probed, path, text, chunkVars, dirVars,
                   txtVars, result, exc, requests, restartVars>>

\* chunked path:  if _restart_whisper():  retry loop, else fall through
AfterRestartChunked ==
    /\ pc = "after_restart"
    /\ InChunked
    /\ IF restartOk
       THEN /\ pc' = "retry_pass"
            /\ retryIdx' = 1
       ELSE /\ pc' = "combine"
            /\ retryIdx' = retryIdx
    /\ UNCHANGED <<appVars, cfgVars, detVars, recVars, inFlight, frameVars, probed, path, text, chunks,
                   transcripts, failed_chunks, dirVars, txtVars, result, exc,
                   requests, restartVars>>

\* one iteration of  for i, chunk_path in failed_chunks:
RetryPass ==
    /\ pc = "retry_pass"
    /\ LET i == failed_chunks[retryIdx]
       IN \E r \in Replies :
             /\ chunks[i] \in inFlight
             /\ inFlight' = InFlightAfterReply(inFlight, chunks[i])
             /\ requests' = Append(requests, [unit |-> chunks[i], reply |-> r])
             /\ IF r.ok
                THEN /\ transcripts' =
                          [transcripts EXCEPT ![i] = RetryEntry(r.text)]
                     /\ retryIdx' = retryIdx + 1
                     /\ pc' = IF RetryDone(retryIdx, failed_chunks)
                              THEN "combine" ELSE "retry_pass"
                     /\ exc' = exc
                ELSE /\ UNCHANGED <<transcripts, retryIdx>>
                     /\ pc' = PcOnTransportError(TRUE)
                     /\ exc' = "transport"
    /\ UNCHANGED <<appVars, cfgVars, detVars, recVars, frameVars, probed, path, text, chunks,
                   failed_chunks, dirVars, txtVars, result, restartVars>>

\* combined = "\n\n".join(...); write if non-empty; return combined or None
CombineTranscripts ==
    /\ pc = "combine"
    /\ LET combined == Combine(transcripts)
       IN /\ IF combined # <<>>
             THEN /\ txtFile' = combined
                  /\ txtWrites' = txtWrites + 1
             ELSE UNCHANGED txtVars
          /\ result' = IF combined # <<>> THEN combined ELSE None
    /\ pc' = "chunked_finally"
    /\ UNCHANGED <<appVars, cfgVars, detVars, recVars, inFlight, frameVars, probed, path, text, chunkVars, dirVars,
                   exc, requests, restartVars>>

\* finally: if chunk_dir.exists(): unlink every file; rmdir
ChunkedFinally ==
    /\ pc = "chunked_finally"
    /\ chunkFiles' = IF chunkDirExists
                     THEN FilesAfterCleanup(chunkFiles, exc) ELSE chunkFiles
    /\ chunkDirExists' = (chunkDirExists /\ chunkFiles' # {})
    /\ pc' = "finally"
    /\ UNCHANGED <<appVars, cfgVars, detVars, recVars, inFlight, frameVars, probed, path, text, chunkVars, txtVars,
                   result, exc, requests, restartVars>>

\* finally: tmp_path.unlink(missing_ok=True); the frame returns or re-raises
TranscribeFinally ==
    /\ pc = "finally"
    /\ tmpFiles' = TmpFilesAfterUnlink(tmpFiles, depth, exc)
    /\ depth' = depth - 1
    /\ pc' = IF depth = 1 THEN "done" ELSE "finally"
    /\ UNCHANGED <<appVars, cfgVars, detVars, recVars, inFlight, retry_on_hallucination, calls, probed, path, text,
                   chunkVars, dirVars, txtVars, result, exc, requests,
                   restartVars>>

Next ==
    \/ Transcribe
    \/ GetAudioDuration
    \/ Post
    \/ TranscribeDirect
    \/ DetectDirect
    \/ RestartWhisper
    \/ RestartKill
    \/ RestartLaunch
    \/ RestartPoll
    \/ AfterRestartDirect
    \/ ChunkAudio
    \/ FirstPass
    \/ RetryCheck
    \/ AfterRestartChunked
    \/ RetryPass
    \/ CombineTranscripts
    \/ ChunkedFinally
    \/ TranscribeFinally

Spec == Init /\ [][Next]_vars

\* ---------------------------------------------------- the detector alone
\* a text is handed to _is_hallucination
DetInit ==
    /\ WHISPER_CMD = FALSE
    /\ wavDuration = 0
    /\ backendTexts = {}
    /\ SoundBackend
    /\ Idle
    /\ RecIdle
    /\ AppIdle
    /\ detShape \in Shapes
    /\ detText = ShapeText(detShape)
    /\ detVerdict = "pending"

\* verdict = _is_hallucination(text)
IsHallucination ==
    /\ detVerdict = "pending"
    /\ detVerdict' = IF _is_hallucination(detText) THEN "True" ELSE "False"
    /\ UNCHANGED <<appVars, pipeVars, recVars, detShape, detText>>

DetNext == IsHallucination

DetSpec == DetInit /\ [][DetNext]_vars

\* --------------------------------------------- the "Thank you." scenario
\* short audio, a backend that may be stuck on "Thank you."
ScenarioInit ==
    /\ WHISPER_CMD \in BOOLEAN
    /\ wavDuration \in {d \in Durations : ~UseChunked(d)}
    /\ backendTexts = ScenarioTexts
    /\ SoundBackend
    /\ Idle
    /\ DetIdle
    /\ AppIdle
    /\ RecIdle

ScenarioNext ==
    \/ Transcribe
    \/ GetAudioDuration
    \/ Post
    \/ TranscribeDirect
    \/ DetectDirect
    \/ RestartWhisper
    \/ RestartKill
    \/ RestartLaunch
    \/ RestartPoll
    \/ AfterRestartDirect
    \/ TranscribeFinally

ScenarioSpec == ScenarioInit /\ [][ScenarioNext]_vars

\* ---------------------------------------------------------- observations
Last(s) == s[Len(s)]

\* the POSTs made for one unit (0: the whole audio, i >= 1: chunk i)
ReqsOf(u) == SelectSeq(requests, LAMBDA q : q.unit = u)

\* the backend answered and the detector flags the answer
Flagged(r) == r.ok /\ _is_hallucination(r.text)

\* transcribe has returned a value (no exception) from a chunked run
ReturnedChunked == pc = "done" /\ exc = "none" /\ InChunked

\* every answer of the backend carried some text
NoEmptyReply ==
    \A k \in 1..Len(requests) : requests[k].reply.text # <<>>

\* what the requests made for chunk c entitle it to in the transcript:
\* its accepted text, its recovered retry text, the sentinel, or nothing
ChunkOutcome(c) ==
    LET rs == ReqsOf(c)
    IN IF ~Flagged(rs[1].reply) THEN rs[1].reply.text
       ELSE IF Len(rs) < 2 THEN None
       ELSE IF Flagged(rs[2].reply) THEN SENTINEL
       ELSE rs[2].reply.text

\* the non-empty outcomes of chunks 1..k, in ascending order, separated by
\* a blank line
RECURSIVE OrderedUpTo(_)
OrderedUpTo(k) ==
    IF k = 0 THEN <<>>
    ELSE LET before == OrderedUpTo(k - 1)
             e == ChunkOutcome(k)
         IN IF ~Truthy(e) THEN before
            ELSE IF before = <<>> THEN e
            ELSE before \o NEWLINE \o NEWLINE \o e

\* the detector has returned
Decided == detVerdict # "pending"

IsBlank(k) == \A i \in 1..Len(k.line) : k.line[i] = " "

\* number of non-empty lines of a shape
ShapeLines(s) ==
    (IF IsBlank(s.a) THEN 0 ELSE s.m) + (IF IsBlank(s.b) THEN 0 ELSE s.n)

\* the shape is one non-blank line, written five or more times
SingleLineRepeated(s) ==
    /\ ~IsBlank(s.a)
    /\ \/ s.n = 0 /\ s.m >= 5
       \/ s.a.line = s.b.line /\ s.m + s.n >= 5

Max(a, b) == IF a > b THEN a ELSE b

\* p tokens of one text and q of another, all of one delimiter kind: five or
\* more tokens, the most frequent five or more times and more than half
Dominated(p, q) ==
    /\ p + q >= 5
    /\ Max(p, q) >= 5
    /\ 2 * Max(p, q) > p + q

\* the bracket tokens, or the parenthesis tokens, of a shape are dominated
TokensDominated(s) ==
    \/ Dominated(s.a.x * s.m + s.b.x * s.n, s.a.z * s.m + s.b.z * s.n)
    \/ Dominated(s.a.y * s.m + s.b.y * s.n, s.a.w * s.m + s.b.w * s.n)

\* the steps of the restart after the launch: the answers to the polls
PollsOf(log) == SubSeq(log, 4, Len(log))

\* _restart_whisper has been called and has returned
RestartReturned ==
    /\ restarts >= 1
    /\ pc \notin {"restart", "restart_kill", "restart_launch", "restart_poll"}

\* some answer of the backend was flagged
SomeFlagged == \E k \in 1..Len(requests) : Flagged(requests[k].reply)

\* what the caller of transcribe gets when the text is still flagged after a
\* successful restart (line 221 hands on the None of line 227)
TranscriptionFailureView == <<None, "none">>

\* the chunks whose first answer was flagged
FlaggedChunks ==
    {c \in 1..Len(chunks) :
        ReqsOf(c) # <<>> /\ Flagged(ReqsOf(c)[1].reply)}

\* a top-level call with the retry enabled went down the chunked path and
\* returned
ReturnedChunkedTop ==
    /\ pc = "done"
    /\ exc = "none"
    /\ calls = <<TRUE>>
    /\ path = <<"chunked">>

\* number of copies of the most frequent non-empty line of a shape
ShapeTopLine(s) ==
    LET p == IF IsBlank(s.a) THEN 0 ELSE s.m
        q == IF IsBlank(s.b) THEN 0 ELSE s.n
    IN IF s.a.line = s.b.line THEN p + q ELSE Max(p, q)

\* the texts the backend gave that the detector did not flag
CleanTexts ==
    {requests[k].reply.text :
        k \in {j \in 1..Len(requests) :
                  requests[j].reply.ok /\ ~Flagged(requests[j].reply)}}

\* ------------------------------------- _restart_whisper called repeatedly
\* _restart_whisper() is entered; a backend process may or may not be
\* running, pkill and the launched process may fail, and a health check
\* takes up to its timeout
RestartInit ==
    /\ pc = "restart"
    /\ Quiet
    /\ WHISPER_CMD \in BOOLEAN
    /\ wavDuration \in Durations
    /\ backendTexts = {}
    /\ healthDelays = 0..HEALTH_TIMEOUT_SECS
    /\ procFaults = TRUE
    /\ whisperProcs \in 0..1
    /\ DetIdle
    /\ AppIdle
    /\ RecIdle

\* the call has returned and _restart_whisper() is called once more
RestartAgain ==
    /\ pc = "after_restart"
    /\ restarts < MaxRestartCalls
    /\ pc' = "restart"
    /\ UNCHANGED <<appVars, cfgVars, detVars, recVars, inFlight, frameVars, probed,
                   path, text, chunkVars, dirVars, txtVars, result, exc,
                   requests, restartVars>>

RestartNext ==
    \/ RestartWhisper
    \/ RestartKill
    \/ RestartLaunch
    \/ RestartPoll
    \/ RestartAgain

RestartSpec == RestartInit /\ [][RestartNext]_vars

\* ------------------------------------------------------------ recorder.py
\* the file exists and is empty
EmptyFile == <<>>

\* the first n blocks the device delivers
Blocks(n) == [i \in 1..n |-> i]

\* _chunks_to_wav(chunks): b"" for no blocks, else a header and the frames
\* of every block, in the order of the list
_chunks_to_wav(blocks) ==
    IF blocks = <<>> THEN EmptyFile ELSE <<"RIFF">> \o blocks

\* slip: the lock is not taken
LockFree_always(l) == TRUE

\* with _chunks_lock:  can be entered
LockFree(l) == l = "free"

\* (datetime.now() - start).seconds
Elapsed(t, s) == (t - s) % DAY_SECS

\* time.time() - last_save_time >= SAVE_INTERVAL_SECS
SaveDue(t, last) == t - last >= SAVE_INTERVAL_SECS

\* elapsed >= MAX_DURATION
MaxReached(e, max) == e >= max

\* TEMP_DIR.glob("*.partial.wav")
Partials(files) == {s \in Sessions : files[s] # NoFile}

\* slip: sorted without reverse=True, the oldest partial comes first
LatestPartials_oldest(files, mt) ==
    {s \in Partials(files) : \A t \in Partials(files) : mt[s] <= mt[t]}

\* the sessions that can be first in
\* sorted(partials, key=st_mtime, reverse=True)
LatestPartials(files, mt) ==
    {s \in Partials(files) : \A t \in Partials(files) : mt[s] >= mt[t]}

\* values of KUMBUKA_MAX_RECORDING_SECONDS
MaxDurations == {2 * SAVE_INTERVAL_SECS, DEFAULT_MAX_DURATION}

\* no recorder process is running
NotRunning == recPc \in {"idle", "returned", "raised", "killed"}

\* positions inside  with sd.InputStream(...)  and inside _save_incremental
LoopPcs == {"loop", "slept", "save_lock", "save_copy", "save_open", "save_write",
            "save_return", "max_check"}

\* the input stream is open: the callback can be called
StreamOpen == recPc \in LoopPcs /\ ~final

\* a new process calls record(): lines 155-163
Record ==
    /\ NotRunning
    /\ session < MaxSessions
    /\ session' = session + 1
    /\ _stop_event' = FALSE
    /\ _chunks' = <<>>
    /\ sigintHandler' = "_on_signal"
    /\ recPc' = "start_tone"
    /\ recResult' = <<None, SessionNone>>
    /\ recExc' = "none"
    /\ start' = 0
    /\ last_save_time' = 0
    /\ elapsed' = 0
    /\ chunks_copy' = <<>>
    /\ final' = FALSE
    /\ wav' = <<>>
    /\ saved' = <<>>
    /\ UNCHANGED <<appVars, pipeVars, detVars, cbVars, MAX_DURATION, now, fileVars, sigints,
                   recoverLog>>

\* play_start_tone(); last_save_time = time.time()
StartTone ==
    /\ recPc = "start_tone"
    /\ last_save_time' = now
    /\ recPc' = "open_stream"
    /\ UNCHANGED <<appVars, pipeVars, detVars, cbVars, MAX_DURATION, _stop_event, _chunks,
                   session, sigintHandler, now, start, elapsed, chunks_copy,
                   final, wav, fileVars, sigints, recResult, recExc,
                   recoverLog, saved>>

\* with sd.InputStream(...):  start = datetime.now()
OpenStream ==
    /\ recPc = "open_stream"
    /\ start' = now
    /\ recPc' = "loop"
    /\ UNCHANGED <<appVars, pipeVars, detVars, cbVars, MAX_DURATION, _stop_event, _chunks,
                   session, sigintHandler, now, last_save_time, elapsed,
                   chunks_copy, final, wav, fileVars, sigints, recResult,
                   recExc, recoverLog, saved>>

\* while not _stop_event.is_set(): time.sleep(0.1)
LoopTest ==
    /\ recPc = "loop"
    /\ recPc' = IF _stop_event THEN "restore" ELSE "slept"
    /\ UNCHANGED <<appVars, pipeVars, detVars, cbVars, MAX_DURATION, _stop_event, _chunks,
                   session, sigintHandler, clockVars, chunks_copy, final, wav,
                   fileVars, sigints, recResult, recExc, recoverLog, saved>>

\* elapsed = ...;  if time.time() - last_save_time >= SAVE_INTERVAL_SECS:
\* _save_incremental(session)
LoopElapsed ==
    /\ recPc = "slept"
    /\ elapsed' = Elapsed(now, start)
    /\ recPc' = IF SaveDue(now, last_save_time) THEN "save_lock"
                ELSE "max_check"
    /\ UNCHANGED <<appVars, pipeVars, detVars, cbVars, MAX_DURATION, _stop_event, _chunks,
                   session, sigintHandler, now, start, last_save_time,
                   chunks_copy, final, wav, fileVars, sigints, recResult,
                   recExc, recoverLog, saved>>

\* _save_incremental:  with _chunks_lock:  is entered
SaveLock ==
    /\ recPc = "save_lock"
    /\ LockFree(_chunks_lock)
    /\ _chunks_lock' = "main"
    /\ recPc' = "save_copy"
    /\ UNCHANGED <<appVars, pipeVars, detVars, cbPc, MAX_DURATION, _stop_event,
                   _chunks, session, sigintHandler, clockVars, chunks_copy,
                   final, wav, fileVars, sigints, recResult, recExc,
                   recoverLog, saved>>

\* inside the lock: if not _chunks: return;  chunks_copy = _chunks.copy();
\* the lock is left
SaveCopy ==
    /\ recPc = "save_copy"
    /\ _chunks_lock' = "free"
    /\ IF _chunks = <<>>
       THEN /\ recPc' = "save_return"
            /\ chunks_copy' = chunks_copy
       ELSE /\ recPc' = "save_open"
            /\ chunks_copy' = _chunks
    /\ UNCHANGED <<appVars, pipeVars, detVars, cbPc, MAX_DURATION, _stop_event,
                   _chunks, session, sigintHandler, clockVars, final, wav,
                   fileVars, sigints, recResult, recExc, recoverLog, saved>>

\* partial_path.write_bytes(wav_bytes), first half: open(mode="wb") creates
\* the file or truncates it
SaveOpen ==
    /\ recPc = "save_open"
    /\ partialFile' = [partialFile EXCEPT ![session] = EmptyFile]
    /\ partialMtime' = [partialMtime EXCEPT ![session] = now]
    /\ recPc' = "save_write"
    /\ UNCHANGED <<appVars, pipeVars, detVars, cbVars, MAX_DURATION, _stop_event, _chunks,
                   session, sigintHandler, clockVars, chunks_copy, final, wav,
                   finalFile, sigints, recResult, recExc, recoverLog, saved>>

\* partial_path.write_bytes(wav_bytes), second half: the bytes are written;
\* if final: partial_path.rename(final_path)
SaveWrite ==
    /\ recPc = "save_write"
    /\ saved' = chunks_copy
    /\ partialMtime' = [partialMtime EXCEPT ![session] = now]
    /\ IF final
       THEN /\ partialFile' = [partialFile EXCEPT ![session] = NoFile]
            /\ finalFile' =
                  [finalFile EXCEPT ![session] = _chunks_to_wav(chunks_copy)]
       ELSE /\ partialFile' =
                  [partialFile EXCEPT ![session] = _chunks_to_wav(chunks_copy)]
            /\ finalFile' = finalFile
    /\ recPc' = "save_return"
    /\ UNCHANGED <<appVars, pipeVars, detVars, cbVars, MAX_DURATION, _stop_event, _chunks,
                   session, sigintHandler, clockVars, chunks_copy, final, wav,
                   sigints, recResult, recExc, recoverLog>>

\* _save_incremental has returned: last_save_time = time.time() in the
\* loop, return wav, session after the final save
SaveReturn ==
    /\ recPc = "save_return"
    /\ IF final
       THEN /\ recPc' = "returned"
            /\ recResult' = <<_chunks_to_wav(wav), session>>
            /\ last_save_time' = last_save_time
       ELSE /\ recPc' = "max_check"
            /\ recResult' = recResult
            /\ last_save_time' = now
    /\ UNCHANGED <<appVars, pipeVars, detVars, cbVars, MAX_DURATION, _stop_event, _chunks,
                   session, sigintHandler, now, start, elapsed, chunks_copy,
                   final, wav, fileVars, sigints, recExc, recoverLog, saved>>

\* if elapsed >= MAX_DURATION: break
MaxCheck ==
    /\ recPc = "max_check"
    /\ recPc' = IF MaxReached(elapsed, MAX_DURATION) THEN "restore"
                ELSE "loop"
    /\ UNCHANGED <<appVars, pipeVars, detVars, cbVars, MAX_DURATION, _stop_event, _chunks,
                   session, sigintHandler, clockVars, chunks_copy, final, wav,
                   fileVars, sigints, recResult, recExc, recoverLog, saved>>

\* the stream is closed (a running callback ends first);  finally: signal.signal(signal.SIGINT, old_handler)
Restore ==
    /\ recPc = "restore"
    /\ cbPc = "idle"
    /\ sigintHandler' = "default"
    /\ recPc' = "stop_tone"
    /\ UNCHANGED <<appVars, pipeVars, detVars, cbVars, MAX_DURATION, _stop_event, _chunks,
                   session, clockVars, chunks_copy, final, wav, fileVars,
                   sigints, recResult, recExc, recoverLog, saved>>

\* play_stop_tone()
StopTone ==
    /\ recPc = "stop_tone"
    /\ recPc' = "final_check"
    /\ UNCHANGED <<appVars, pipeVars, detVars, cbVars, MAX_DURATION, _stop_event, _chunks,
                   session, sigintHandler, clockVars, chunks_copy, final, wav,
                   fileVars, sigints, recResult, recExc, recoverLog, saved>>

\* with _chunks_lock: if not _chunks: unlink the partial, return None, None;
\* else wav = _chunks_to_wav(_chunks.copy()); _save_incremental(final=True)
FinalCheck ==
    /\ recPc = "final_check"
    /\ IF _chunks = <<>>
       THEN /\ partialFile' = [partialFile EXCEPT ![session] = NoFile]
            /\ recResult' = <<None, SessionNone>>
            /\ recPc' = "returned"
            /\ UNCHANGED <<chunks_copy, wav, final>>
       ELSE /\ chunks_copy' = _chunks
            /\ wav' = _chunks
            /\ final' = TRUE
            /\ recPc' = "save_lock"
            /\ UNCHANGED <<partialFile, recResult>>
    /\ UNCHANGED <<appVars, pipeVars, detVars, cbVars, MAX_DURATION, _stop_event, _chunks,
                   session, sigintHandler, clockVars, partialMtime, finalFile,
                   sigints, recExc, recoverLog, saved>>

\* callback(indata, ...), on the audio thread: if not _stop_event.is_set():
CallbackTest ==
    /\ StreamOpen
    /\ cbPc = "idle"
    /\ ~_stop_event
    /\ Len(_chunks) < MaxBlocks
    /\ cbPc' = "tested"
    /\ UNCHANGED <<appVars, pipeVars, detVars, _chunks_lock, recPc, MAX_DURATION,
                   _stop_event, _chunks, session, sigintHandler, clockVars,
                   chunks_copy, final, wav, fileVars, sigints, recResult,
                   recExc, recoverLog, saved>>

\* callback:  with _chunks_lock:  is entered
CallbackLock ==
    /\ cbPc = "tested"
    /\ LockFree(_chunks_lock)
    /\ _chunks_lock' = "callback"
    /\ cbPc' = "locked"
    /\ UNCHANGED <<appVars, pipeVars, detVars, recPc, MAX_DURATION, _stop_event,
                   _chunks, session, sigintHandler, clockVars, chunks_copy,
                   final, wav, fileVars, sigints, recResult, recExc,
                   recoverLog, saved>>

\* callback, inside the lock: _chunks.append(indata.copy()); the lock is
\* left
Capture ==
    /\ cbPc = "locked"
    /\ _chunks' = Append(_chunks, Len(_chunks) + 1)
    /\ _chunks_lock' = "free"
    /\ cbPc' = "idle"
    /\ UNCHANGED <<appVars, pipeVars, detVars, recPc, MAX_DURATION, _stop_event,
                   session, sigintHandler, clockVars, chunks_copy, final, wav,
                   fileVars, sigints, recResult, recExc, recoverLog, saved>>

\* SIGINT: _on_signal sets the stop event; with the default handler back in
\* place (after line 205) Python raises KeyboardInterrupt in the main thread
Sigint ==
    /\ ~NotRunning
    /\ sigints < MaxSigints
    /\ sigints' = sigints + 1
    /\ IF sigintHandler = "_on_signal"
       THEN /\ _stop_event' = TRUE
            /\ UNCHANGED <<recPc, recExc>>
       ELSE /\ recPc' = "raised"
            /\ recExc' = "KeyboardInterrupt"
            /\ UNCHANGED _stop_event
    /\ UNCHANGED <<appVars, pipeVars, detVars, cbVars, MAX_DURATION, _chunks, session,
                   sigintHandler, clockVars, chunks_copy, final, wav,
                   fileVars, recResult, recoverLog, saved>>

\* the process is killed (SIGKILL, power loss): its memory is gone, only
\* the files remain
Kill ==
    /\ ~NotRunning
    /\ recPc' = "killed"
    /\ _chunks_lock' = "free"
    /\ cbPc' = "idle"
    /\ _stop_event' = FALSE
    /\ _chunks' = <<>>
    /\ sigintHandler' = "default"
    /\ start' = 0
    /\ last_save_time' = 0
    /\ elapsed' = 0
    /\ chunks_copy' = <<>>
    /\ final' = FALSE
    /\ wav' = <<>>
    /\ UNCHANGED <<appVars, pipeVars, detVars, MAX_DURATION, session, now, fileVars,
                   sigints, recResult, recExc, recoverLog, saved>>

\* time passes during time.sleep(0.1) of the loop
Tick ==
    /\ recPc = "loop"
    /\ now + TickSecs <= MaxTime
    /\ now' = now + TickSecs
    /\ UNCHANGED <<appVars, pipeVars, detVars, cbVars, recPc, MAX_DURATION, _stop_event,
                   _chunks, session, sigintHandler, start, last_save_time,
                   elapsed, chunks_copy, final, wav, fileVars, sigints,
                   recResult, recExc, recoverLog, saved>>

\* the entry recover_partial leaves in the log
Recovered(arg, ret, pf, ff) ==
    [arg |-> arg, ret |-> ret,
     partialBefore |-> partialFile, mtimeBefore |-> partialMtime,
     finalBefore |-> finalFile, partialAfter |-> pf, finalAfter |-> ff]

\* a new process calls recover_partial(arg); SessionNone is the call
\* without a session
RecoverPartial ==
    /\ NotRunning
    /\ Len(recoverLog) < MaxRecovers
    /\ \E arg \in Sessions \cup {SessionNone} :
       \E s \in (IF arg # SessionNone THEN {arg}
                 ELSE IF Partials(partialFile) = {} THEN {SessionNone}
                 ELSE LatestPartials(partialFile, partialMtime)) :
          IF s # SessionNone /\ partialFile[s] # NoFile
          THEN /\ partialFile' = [partialFile EXCEPT ![s] = NoFile]
               /\ finalFile' = [finalFile EXCEPT ![s] = partialFile[s]]
               /\ recoverLog' =
                     Append(recoverLog,
                            Recovered(arg, <<partialFile[s], s>>,
                                      partialFile', finalFile'))
          ELSE /\ UNCHANGED <<partialFile, finalFile>>
               /\ recoverLog' =
                     Append(recoverLog,
                            Recovered(arg, <<None, SessionNone>>,
                                      partialFile, finalFile))
    /\ UNCHANGED <<appVars, pipeVars, detVars, cbVars, recPc, MAX_DURATION, _stop_event,
                   _chunks, session, sigintHandler, clockVars, chunks_copy,
                   final, wav, partialMtime, sigints, recResult, recExc,
                   saved>>

\* an empty recordings directory, no process running
RecInit ==
    /\ WHISPER_CMD = FALSE
    /\ wavDuration = DurationNone
    /\ backendTexts = {}
    /\ SoundBackend
    /\ Idle
    /\ DetIdle
    /\ AppIdle
    /\ MAX_DURATION \in MaxDurations
    /\ RecQuiet

RecNext ==
    \/ Record
    \/ StartTone
    \/ OpenStream
    \/ LoopTest
    \/ LoopElapsed
    \/ SaveLock
    \/ SaveCopy
    \/ SaveOpen
    \/ SaveWrite
    \/ SaveReturn
    \/ MaxCheck
    \/ Restore
    \/ StopTone
    \/ FinalCheck
    \/ CallbackTest
    \/ CallbackLock
    \/ Capture
    \/ Sigint
    \/ Kill
    \/ Tick

RecSpec == RecInit /\ [][RecNext]_vars

\* --------------------------------------- recover_partial called repeatedly
\* what a process that was killed or interrupted can leave as a partial
PartialContents ==
    {NoFile, EmptyFile} \cup {_chunks_to_wav(Blocks(n)) : n \in 1..MaxBlocks}

\* a recordings directory left by earlier processes: a session has a
\* partial file (with its modification time), a final file, or neither
RecoverInit ==
    /\ WHISPER_CMD = FALSE
    /\ wavDuration = DurationNone
    /\ backendTexts = {}
    /\ SoundBackend
    /\ Idle
    /\ DetIdle
    /\ AppIdle
    /\ MAX_DURATION = DEFAULT_MAX_DURATION
    /\ RecProcIdle
    /\ partialFile \in [Sessions -> PartialContents]
    /\ partialMtime \in [Sessions -> 0..MaxSessions]
    /\ finalFile \in [Sessions -> {NoFile, _chunks_to_wav(Blocks(1))}]
    /\ \A s \in Sessions :
          /\ partialFile[s] = NoFile <=> partialMtime[s] = 0
          /\ partialFile[s] # NoFile => finalFile[s] = NoFile

RecoverNext == RecoverPartial

RecoverSpec == RecoverInit /\ [][RecoverNext]_vars

\* (None, None)
NoRecording == <<None, SessionNone>>

\* -------------------------------------------- __main__.py: the two commands
coreVars == <<pipeVars, detVars, recVars>>

\* transcriber, detector and recorder are not in use
CoreIdle ==
    /\ WHISPER_CMD = FALSE
    /\ wavDuration = DurationNone
    /\ backendTexts = {}
    /\ SoundBackend
    /\ Idle
    /\ DetIdle
    /\ RecIdle

\* what record() can return: (None, None) or (wav, session)
RecordReturns ==
    {NoRecording}
        \cup {<<_chunks_to_wav(Blocks(n)), s>> :
                 n \in 1..MaxBlocks, s \in Sessions}

\* what recover_partial() can return: (None, None) or the bytes of the
\* partial file, which can be empty, and its session
RecoverReturns ==
    RecordReturns \cup {<<EmptyFile, s>> : s \in Sessions}

\* what transcribe() can return
TranscribeReturns == {None, <<>>, TextA, TextB}

\* what process_with_claude() can return: None or a dict, of which the
\* filename matters here
ClaudeReturns == {None, <<"result", "">>, <<"result", "standup">>}

\* slip: only None counts as no audio
NoAudio_none(cmd, w, sess) == w = None

\* do_record:  if not wav      do_recover:  if not wav or not
\* recovered_session
NoAudio(cmd, w, sess) ==
    IF cmd = "record" THEN ~Truthy(w)
    ELSE ~Truthy(w) \/ sess = SessionNone

\* if not check_requirements(): sys.exit(1)
CheckRequirements ==
    /\ mainPc = "start"
    /\ mainLog' = Append(mainLog, "check_requirements")
    /\ \E ok \in BOOLEAN :
          IF ok
          THEN /\ mainPc' = "capture"
               /\ exitStatus' = exitStatus
          ELSE /\ mainPc' = "exited"
               /\ exitStatus' = 1
    /\ UNCHANGED <<coreVars, notionVars, monVars, envVars, renVars, command, cmdWav, cmdSession, transcript,
                   claudeResult>>

\* wav, session = record()  /  recover_partial(session);  without audio:
\* sys.exit(1);  an exception of the callee ends the command
CaptureAudio ==
    /\ mainPc = "capture"
    /\ mainLog' =
          Append(mainLog,
                 IF command = "record" THEN "record" ELSE "recover_partial")
    /\ \/ /\ \E ret \in (IF command = "record" THEN RecordReturns
                         ELSE RecoverReturns) :
                /\ cmdWav' = ret[1]
                /\ cmdSession' = ret[2]
                /\ IF NoAudio(command, ret[1], ret[2])
                   THEN /\ mainPc' = "exited"
                        /\ exitStatus' = 1
                   ELSE /\ mainPc' = "transcribe"
                        /\ exitStatus' = exitStatus
       \/ /\ mainPc' = "raised"
          /\ UNCHANGED <<cmdWav, cmdSession, exitStatus>>
    /\ UNCHANGED <<coreVars, notionVars, monVars, envVars, renVars, command, transcript, claudeResult>>

\* transcript = transcribe(wav_path);  if not transcript: sys.exit(1)
TranscribeAudio ==
    /\ mainPc = "transcribe"
    /\ mainLog' = Append(mainLog, "transcribe")
    /\ \/ /\ \E t \in TranscribeReturns :
                /\ transcript' = t
                /\ IF ~Truthy(t)
                   THEN /\ mainPc' = "exited"
                        /\ exitStatus' = 1
                   ELSE /\ mainPc' = "claude"
                        /\ exitStatus' = exitStatus
       \/ /\ mainPc' = "raised"
          /\ UNCHANGED <<transcript, exitStatus>>
    /\ UNCHANGED <<coreVars, notionVars, monVars, envVars, renVars, command, cmdWav, cmdSession, claudeResult>>

\* result = process_with_claude(...);  if result: ...;  print("Done!")
ProcessWithClaude ==
    /\ mainPc = "claude"
    /\ mainLog' = Append(mainLog, "process_with_claude")
    /\ \/ /\ \E r \in ClaudeReturns :
                /\ claudeResult' = r
                /\ IF r # None
                   THEN /\ mainPc' = "rename"
                        /\ exitStatus' = exitStatus
                   ELSE /\ mainPc' = "done"
                        /\ exitStatus' = 0
       \/ /\ mainPc' = "raised"
          /\ UNCHANGED <<claudeResult, exitStatus>>
    /\ UNCHANGED <<coreVars, notionVars, monVars, envVars, renVars, command, cmdWav, cmdSession, transcript>>

\* _rename_session_files(session, filename)
RenameSessionFiles ==
    /\ mainPc = "rename"
    /\ mainLog' = Append(mainLog, "_rename_session_files")
    /\ mainPc' = "notion"
    /\ UNCHANGED <<coreVars, notionVars, monVars, envVars, renVars, command, cmdWav, cmdSession, transcript,
                   claudeResult, exitStatus>>

\* _save_to_notion(result), which catches its exceptions;  print("Done!")
SaveToNotion ==
    /\ mainPc = "notion"
    /\ mainLog' = Append(mainLog, "_save_to_notion")
    /\ mainPc' = "done"
    /\ exitStatus' = 0
    /\ UNCHANGED <<coreVars, notionVars, monVars, envVars, renVars, command, cmdWav, cmdSession, transcript,
                   claudeResult>>

\* kumbuka  or  kumbuka recover  is started
MainInit ==
    /\ CoreIdle
    /\ NotionIdle
    /\ MonIdle
    /\ EnvIdle
    /\ RenameIdle
    /\ mainPc = "start"
    /\ command \in {"record", "recover"}
    /\ cmdWav = None
    /\ cmdSession = SessionNone
    /\ transcript = None
    /\ claudeResult = None
    /\ exitStatus = StillRunning
    /\ mainLog = <<>>

MainNext ==
    \/ CheckRequirements
    \/ CaptureAudio
    \/ TranscribeAudio
    \/ ProcessWithClaude
    \/ RenameSessionFiles
    \/ SaveToNotion

MainSpec == MainInit /\ [][MainNext]_vars

\* the log entry e says that the partial of session s was recovered
RecoveredAs(e, s) ==
    /\ e.ret = <<e.partialBefore[s], s>>
    /\ e.partialAfter = [e.partialBefore EXCEPT ![s] = NoFile]
    /\ e.finalAfter = [e.finalBefore EXCEPT ![s] = e.partialBefore[s]]

\* the log entry e says that nothing was recovered and no file changed
NothingRecovered(e) ==
    /\ e.ret = NoRecording
    /\ e.partialAfter = e.partialBefore
    /\ e.finalAfter = e.finalBefore

\* the WAVs of the non-empty prefixes of a list of blocks
PrefixWavs(blocks) ==
    {_chunks_to_wav(SubSeq(blocks, 1, n)) : n \in 1..Len(blocks)}

\* the callback's append and the saver's copy exclude each other
MutuallyExclusive ==
    /\ cbPc = "locked" => _chunks_lock = "callback"
    /\ recPc = "save_copy" => _chunks_lock = "main"
    /\ ~(cbPc = "locked" /\ recPc = "save_copy")

\* while the recorder runs: the list holds the delivered blocks in order,
\* every copy and every file of the session is a prefix of it, and what
\* record() returns holds every block
SnapshotsArePrefixes ==
    ~NotRunning \/ recPc = "returned"
        => /\ _chunks = Blocks(Len(_chunks))
           /\ chunks_copy = SubSeq(_chunks, 1, Len(chunks_copy))
           /\ partialFile[session]
                 \in {NoFile, EmptyFile} \cup PrefixWavs(_chunks)
           /\ finalFile[session] \in {NoFile} \cup PrefixWavs(_chunks)
           /\ (recPc = "returned" /\ _chunks # <<>>)
                 => /\ finalFile[session] = _chunks_to_wav(_chunks)
                    /\ recResult = <<_chunks_to_wav(_chunks), session>>

\* -------------------------------------------------- _rename_session_files
\* the content of the file that was created under the name x
ContentOf(x) == <<"content of">> \o x

\* path.exists()
Exists(dir, x) == dir[x] # NoFile

\* new = f"{filename}{ext}", or f"{filename}_{session}{ext}" when that
\* exists
RenameTarget(dir, n, f, ext) ==
    IF Exists(dir, NewName(f, ext)) THEN AltName(f, n, ext)
    ELSE NewName(f, ext)

\* old.rename(new) on POSIX: new is replaced when it exists
RenameFile(dir, old, new) ==
    IF old = new THEN dir
    ELSE [dir EXCEPT ![new] = dir[old], ![old] = NoFile]

\* if not filename: return
RenameStart ==
    /\ renPc = "start"
    /\ renPc' = IF Truthy(renFilename) THEN "ext1" ELSE "done"
    /\ UNCHANGED <<coreVars, notionVars, monVars, envVars, mainVars, renSession, renFilename, dirFiles,
                   dirBefore>>

\* one iteration of  for ext in (".wav", ".txt"):  if old.exists(): ...
\* old.rename(new)
RenameExt ==
    /\ renPc \in {"ext1", "ext2"}
    /\ LET ext == IF renPc = "ext1" THEN Exts[1] ELSE Exts[2]
           old == OldName(renSession, ext)
       IN dirFiles' =
             IF Exists(dirFiles, old)
             THEN RenameFile(dirFiles, old,
                             RenameTarget(dirFiles, renSession, renFilename,
                                          ext))
             ELSE dirFiles
    /\ renPc' = IF renPc = "ext1" THEN "ext2" ELSE "done"
    /\ UNCHANGED <<coreVars, notionVars, monVars, envVars, mainVars, renSession, renFilename, dirBefore>>

\* the names one call with a session and a filename can touch
Touched(n, f) ==
    IF ~Truthy(f) THEN {OldName(n, Exts[e]) : e \in 1..2}
    ELSE UNION {{OldName(n, Exts[e]), NewName(f, Exts[e]),
                 AltName(f, n, Exts[e])} : e \in 1..2}

\* _rename_session_files(session, filename) is called; of TEMP_DIR the files
\* it can touch are there or not
RenameInit ==
    /\ CoreIdle
    /\ NotionIdle
    /\ MonIdle
    /\ EnvIdle
    /\ MainIdle
    /\ renPc = "start"
    /\ renSession \in Sessions
    /\ renFilename \in Filenames \cup {<<>>}
    /\ \E present \in SUBSET Touched(renSession, renFilename) :
          dirFiles = [x \in FileNames |->
                         IF x \in present THEN ContentOf(x) ELSE NoFile]
    /\ dirBefore = dirFiles

RenameNext ==
    \/ RenameStart
    \/ RenameExt

RenameSpec == RenameInit /\ [][RenameNext]_vars

\* ------------------------------------------- config set, _write_env_value
\* CONFIG_KEYS, two of its entries; the env var names are shortened to
\* "A" (KUMBUKA_OUTPUT_DIR) and "B" (KUMBUKA_USER_NAME)
CONFIG_KEYS == [output_dir |-> <<"A">>, user_name |-> <<"B">>]

\* lines an env file can hold: comments (one with an assignment in it),
\* blank lines, assignments of A (plain and spaced), of B, and of a key that
\* starts with A, and a line without "="
EnvLineKinds ==
    {<<"#", " ", "A", "=", "1">>, <<"#">>, <<>>, <<" ">>,
     <<"A", "=", "o">>, <<" ", "A", " ", "=", "o">>, <<"B", "=", "o">>,
     <<"A", "B", "=", "A">>, <<"A">>}

\* all sequences over S of length at most n
RECURSIVE SeqsUpTo(_, _)
SeqsUpTo(S, n) ==
    IF n = 0 THEN {<<>>}
    ELSE LET shorter == SeqsUpTo(S, n - 1)
         IN shorter \cup {Append(q, x) : q \in shorter, x \in S}

\* stripped and not stripped.startswith("#") and "=" in stripped
IsAssignment(line) ==
    LET stripped == Strip(line)
    IN /\ stripped # <<>>
       /\ stripped[1] # "#"
       /\ FirstIn(stripped, "=", 1, Len(stripped)) # 0

\* stripped.partition("=")[0].strip()
KeyOf(line) ==
    LET stripped == Strip(line)
        eq == FirstIn(stripped, "=", 1, Len(stripped))
    IN Strip(SubSeq(stripped, 1, eq - 1))

\* slip: key.startswith(env_var)
KeyMatches_prefix(key, env_var) ==
    /\ Len(key) >= Len(env_var)
    /\ SubSeq(key, 1, Len(env_var)) = env_var

\* key == env_var
KeyMatches(key, env_var) == key = env_var

\* f'{env_var}="{value}"'
EnvEntry(env_var, value) == env_var \o <<"=", "\"">> \o value \o <<"\"">>

\* the line of env_var is to be replaced
Replaced(line, env_var) ==
    IsAssignment(line) /\ KeyMatches(KeyOf(line), env_var)

\* the list  lines  that _write_env_value builds from the lines of the file
WrittenLines(old, env_var, value) ==
    LET kept == [i \in 1..Len(old) |->
                    IF Replaced(old[i], env_var)
                    THEN EnvEntry(env_var, value) ELSE old[i]]
        found == \E i \in 1..Len(old) : Replaced(old[i], env_var)
    IN IF found THEN kept ELSE Append(kept, EnvEntry(env_var, value))

\* config_set:  if key not in CONFIG_KEYS: ... sys.exit(1)
ConfigSet ==
    /\ envPc = "start"
    /\ IF envKey \in DOMAIN CONFIG_KEYS
       THEN /\ envPc' = "write"
            /\ envExit' = envExit
       ELSE /\ envPc' = "exited"
            /\ envExit' = 1
    /\ UNCHANGED <<coreVars, notionVars, monVars, mainVars, renVars, envKey, envValue, envExists,
                   envLines, envBefore>>

\* _write_env_value(CONFIG_KEYS[key], value);  print(f"Set ...")
WriteEnvValue ==
    /\ envPc = "write"
    /\ envLines' =
          WrittenLines(IF envExists THEN envLines ELSE <<>>,
                       CONFIG_KEYS[envKey], envValue)
    /\ envExists' = TRUE
    /\ envPc' = "done"
    /\ envExit' = 0
    /\ UNCHANGED <<coreVars, notionVars, monVars, mainVars, renVars, envKey, envValue, envBefore>>

\* kumbuka config set <key> <value>  is started; the env file is missing or
\* holds up to MaxLines lines
EnvInit ==
    /\ CoreIdle
    /\ NotionIdle
    /\ MonIdle
    /\ MainIdle
    /\ RenameIdle
    /\ envPc = "start"
    /\ envKey \in {"output_dir", "user_name", "colour"}
    /\ envValue \in {<<>>, <<"v">>}
    /\ envExists \in BOOLEAN
    /\ envLines \in SeqsUpTo(EnvLineKinds, MaxLines)
    /\ ~envExists => envLines = <<>>
    /\ envBefore = envLines
    /\ envExit = StillRunning

EnvNext ==
    \/ ConfigSet
    \/ WriteEnvValue

EnvSpec == EnvInit /\ [][EnvNext]_vars

\* the line is an assignment of the env var: not blank, not a comment, and
\* the text before its first "=" is the name
AssignsTo(line, env_var) ==
    LET t == Strip(line)
        eq == FirstIn(t, "=", 1, Len(t))
    IN /\ t # <<>>
       /\ t[1] # "#"
       /\ eq # 0
       /\ Strip(SubSeq(t, 1, eq - 1)) = env_var

\* ------------------------------------------------- daemon/monitor.py
\* the clock advances between two runs of the monitor by half the time an
\* id is remembered (a run itself lasts seconds)
ClockStep == REMEMBER_SECS \div 2

\* how a record dialog can end
DialogOutcomes == {"Record", "Skip", "gave up", "failed"}

\* slip: no id is remembered
load_prompted_none(exists, data, t) == {}

\* load_prompted: the ids whose timestamp is later than the cutoff
load_prompted(exists, data, t) ==
    IF exists
    THEN LET cutoff == t - REMEMBER_SECS
         IN {item.mid : item \in {d \in data : d.stamp > cutoff}}
    ELSE {}

\* save_prompted: data = {mid: datetime.now().timestamp() for mid in prompted}
save_prompted(ids, t) == {[mid |-> m, stamp |-> t] : m \in ids}

\* slip: giving up counts as Record, the default button
show_record_dialog_default(outcome) == outcome \in {"Record", "gave up"}

\* show_record_dialog: result.stdout.strip() == "yes", False on an exception
show_record_dialog(outcome) == outcome = "Record"

\* time passes between two runs
MonTick ==
    /\ monPc \in {"idle", "returned"}
    /\ monNow + ClockStep <= MaxDays * REMEMBER_SECS
    /\ monNow' = monNow + ClockStep
    /\ UNCHANGED <<coreVars, notionVars, mainVars, renVars, envVars, monPc,
                   promptedExists, promptedData, events, evIdx, prompted,
                   loaded, runLog, answers, started, shownTimes>>

\* check_meetings up to the loop: events = get_upcoming_events(...);
\* if not events: return;  prompted = load_prompted()
CheckMeetings ==
    /\ monPc \in {"idle", "returned"}
    /\ \E evs \in SeqsUpTo(EventIds, MaxEvents) :
          /\ events' = evs
          /\ IF evs = <<>>
             THEN /\ monPc' = "returned"
                  /\ prompted' = {}
             ELSE /\ monPc' = "loop"
                  /\ prompted' = load_prompted(promptedExists, promptedData,
                                               monNow)
    /\ loaded' = prompted'
    /\ evIdx' = 1
    /\ runLog' = <<>>
    /\ answers' = <<>>
    /\ started' = 0
    /\ UNCHANGED <<coreVars, notionVars, mainVars, renVars, envVars, monNow,
                   promptedExists, promptedData, shownTimes>>

\* if event_id in prompted: continue
SkipPrompted ==
    /\ monPc = "loop"
    /\ evIdx <= Len(events)
    /\ events[evIdx] \in prompted
    /\ evIdx' = evIdx + 1
    /\ UNCHANGED <<coreVars, notionVars, mainVars, renVars, envVars, monPc, monNow,
                   promptedExists, promptedData, events, prompted, loaded,
                   runLog, answers, started, shownTimes>>

\* prompted.add(event_id); save_prompted(prompted); the dialog is shown
PromptEvent ==
    /\ monPc = "loop"
    /\ evIdx <= Len(events)
    /\ events[evIdx] \notin prompted
    /\ prompted' = prompted \cup {events[evIdx]}
    /\ promptedData' = save_prompted(prompted', monNow)
    /\ promptedExists' = TRUE
    /\ runLog' = Append(runLog, events[evIdx])
    /\ shownTimes' = [shownTimes EXCEPT
                         ![events[evIdx]] = Append(@, monNow)]
    /\ monPc' = "dialog"
    /\ UNCHANGED <<coreVars, notionVars, mainVars, renVars, envVars, monNow, events,
                   evIdx, loaded, answers, started>>

\* if show_record_dialog(title): start_recording(); break
DialogReturns ==
    /\ monPc = "dialog"
    /\ \E outcome \in DialogOutcomes :
          /\ answers' = Append(answers, outcome)
          /\ IF show_record_dialog(outcome)
             THEN /\ started' = started + 1
                  /\ monPc' = "returned"
                  /\ evIdx' = evIdx
             ELSE /\ started' = started
                  /\ monPc' = "loop"
                  /\ evIdx' = evIdx + 1
    /\ UNCHANGED <<coreVars, notionVars, mainVars, renVars, envVars, monNow,
                   promptedExists, promptedData, events, prompted, loaded,
                   runLog, shownTimes>>

\* the loop is past the last event
LoopEnd ==
    /\ monPc = "loop"
    /\ evIdx > Len(events)
    /\ monPc' = "returned"
    /\ UNCHANGED <<coreVars, notionVars, mainVars, renVars, envVars, monNow,
                   promptedExists, promptedData, events, evIdx, prompted,
                   loaded, runLog, answers, started, shownTimes>>

\* the monitor is installed: no prompted file, no run yet
MonInit ==
    /\ CoreIdle
    /\ NotionIdle
    /\ MainIdle
    /\ RenameIdle
    /\ EnvIdle
    /\ MonIdle

MonNext ==
    \/ MonTick
    \/ CheckMeetings
    \/ SkipPrompted
    \/ PromptEvent
    \/ DialogReturns
    \/ LoopEnd

MonSpec == MonInit /\ [][MonNext]_vars

\* the ids of evs that are not in seen, each once, in the order of evs
RECURSIVE FirstUnprompted(_, _)
FirstUnprompted(evs, seen) ==
    IF evs = <<>> THEN <<>>
    ELSE IF Head(evs) \in seen THEN FirstUnprompted(Tail(evs), seen)
    ELSE <<Head(evs)>> \o FirstUnprompted(Tail(evs), seen \cup {Head(evs)})

\* the ids the prompted file holds, whatever their timestamps
PersistedIds == {d.mid : d \in promptedData}

\* ------------------------------------------- notion.py, _text_to_blocks
\* lines of a note: blank, divider, headers, bullets, checkboxes (also
\* indented and without a text), plain text
ContentLineKinds ==
    {<<>>, <<"-", "-", "-">>, <<"#", " ", "t">>, <<"#", "#", " ", "t">>,
     <<"-", " ", "a">>, <<"*", " ", "a">>,
     <<"-", " ", "[", " ", "]", " ", "a">>,
     <<"-", " ", "[", "x", "]", " ", "a">>,
     <<"-", " ", "[", "X", "]", " ", "a">>,
     <<" ", "-", " ", "[", " ", "]", " ", "a">>,
     <<"-", " ", "[", " ", "]">>, <<"a">>, <<"-", "a">>}

\* s.startswith(pre)
StartsWith(s, pre) ==
    /\ Len(s) >= Len(pre)
    /\ SubSeq(s, 1, Len(pre)) = pre

\* s[n:]
DropFirst(s, n) == SubSeq(s, n + 1, Len(s))

\* a block: its type, the content of its rich_text, and its "checked" entry
\* ("absent" for the types that have none)
Block(type, body, checked) ==
    [type |-> type, content |-> body, checked |-> checked]

\* " ".join(current_paragraph)
RECURSIVE JoinParagraph(_)
JoinParagraph(para) ==
    IF para = <<>> THEN <<>>
    ELSE IF Len(para) = 1 THEN para[1]
    ELSE para[1] \o <<" ">> \o JoinParagraph(Tail(para))

\* flush_paragraph: the blocks after it
flush_paragraph(current_paragraph, out) ==
    IF current_paragraph = <<>> THEN out
    ELSE LET joined == Strip(JoinParagraph(current_paragraph))
         IN IF joined = <<>> THEN out
            ELSE Append(out, Block("paragraph", joined, "absent"))

\* the block of a line that is not blank and not paragraph text, in the
\* order of the tests of the loop; <<>> for paragraph text
LineBlock(stripped) ==
    IF stripped = <<"-", "-", "-">>
    THEN <<Block("divider", <<>>, "absent")>>
    ELSE IF StartsWith(stripped, <<"#", "#", "#", " ">>)
    THEN <<Block("heading_3", DropFirst(stripped, 4), "absent")>>
    ELSE IF StartsWith(stripped, <<"#", "#", " ">>)
    THEN <<Block("heading_2", DropFirst(stripped, 3), "absent")>>
    ELSE IF StartsWith(stripped, <<"#", " ">>)
    THEN <<Block("heading_1", DropFirst(stripped, 2), "absent")>>
    ELSE IF \/ StartsWith(stripped, <<"-", " ">>)
            \/ StartsWith(stripped, <<"*", " ">>)
    THEN <<Block("bulleted_list_item", DropFirst(stripped, 2), "absent")>>
    ELSE IF StartsWith(stripped, <<"-", " ", "[", " ", "]", " ">>)
    THEN <<Block("to_do", DropFirst(stripped, 6), "False")>>
    ELSE IF \/ StartsWith(stripped, <<"-", " ", "[", "x", "]", " ">>)
            \/ StartsWith(stripped, <<"-", " ", "[", "X", "]", " ">>)
    THEN <<Block("to_do", DropFirst(stripped, 6), "True")>>
    ELSE <<>>

\* the loop of _text_to_blocks over the remaining lines, and the final flush
RECURSIVE BlocksFrom(_, _, _)
BlocksFrom(rest, current_paragraph, out) ==
    IF rest = <<>> THEN flush_paragraph(current_paragraph, out)
    ELSE LET stripped == Strip(Head(rest))
         IN IF stripped = <<>>
            THEN BlocksFrom(Tail(rest), <<>>,
                            flush_paragraph(current_paragraph, out))
            ELSE IF LineBlock(stripped) # <<>>
            THEN BlocksFrom(Tail(rest), <<>>,
                            flush_paragraph(current_paragraph, out)
                               \o LineBlock(stripped))
            ELSE BlocksFrom(Tail(rest),
                            Append(current_paragraph, stripped), out)

\* _text_to_blocks(content), content given as content.split("\n")
_text_to_blocks(contentLines) == BlocksFrom(contentLines, <<>>, <<>>)

\* blocks = _text_to_blocks(content)
TextToBlocks ==
    /\ notionPc = "start"
    /\ notionBlocks' = _text_to_blocks(notionContent)
    /\ notionPc' = "done"
    /\ UNCHANGED <<coreVars, mainVars, renVars, envVars, monVars,
                   notionContent>>

\* _text_to_blocks is called with a note of up to MaxContentLines lines
NotionInit ==
    /\ CoreIdle
    /\ MainIdle
    /\ RenameIdle
    /\ EnvIdle
    /\ MonIdle
    /\ notionPc = "start"
    /\ notionContent \in SeqsUpTo(ContentLineKinds, MaxContentLines)
    /\ notionBlocks = <<>>

NotionNext == TextToBlocks

NotionSpec == NotionInit /\ [][NotionNext]_vars

\* the list entries among the blocks: type and checked entry of each block
\* that is a to_do or a bulleted_list_item, in order
RECURSIVE ListEntries(_)
ListEntries(bs) ==
    IF bs = <<>> THEN <<>>
    ELSE IF Head(bs).type \in {"to_do", "bulleted_list_item"}
    THEN << <<Head(bs).type, Head(bs).checked>> >> \o ListEntries(Tail(bs))
    ELSE ListEntries(Tail(bs))

\* the list entries the lines call for: "- [ ] " an unchecked to_do,
\* "- [x] " and "- [X] " a checked to_do, other "- " and "* " lines a bullet
RECURSIVE WantedEntries(_)
WantedEntries(ls) ==
    IF ls = <<>> THEN <<>>
    ELSE LET l == Strip(Head(ls))
             wanted ==
                IF StartsWith(l, <<"-", " ", "[", " ", "]", " ">>)
                THEN << <<"to_do", "False">> >>
                ELSE IF \/ StartsWith(l, <<"-", " ", "[", "x", "]", " ">>)
                        \/ StartsWith(l, <<"-", " ", "[", "X", "]", " ">>)
                THEN << <<"to_do", "True">> >>
                ELSE IF \/ StartsWith(l, <<"-", " ">>)
                        \/ StartsWith(l, <<"*", " ">>)
                THEN << <<"bulleted_list_item", "absent">> >>
                ELSE <<>>
         IN wanted \o WantedEntries(Tail(ls))

\* the command has called the function
Called(f) == \E i \in 1..Len(mainLog) : mainLog[i] = f

\* ------------------------------------------------------------------ claims

\* C1: whenever _transcribe_chunked returns a transcript, the transcript has
\* exactly one entry per chunk (accepted text, recovered text or sentinel),
\* for every combination of verdicts and restart outcomes.  Stated for calls
\* made with the retry enabled (the default) in which the backend never
\* answered with an empty text.
C1_OneEntryPerChunk ==
    (ReturnedChunked /\ result # None /\ NoEmptyReply /\ calls = <<TRUE>>)
        => Len(SelectSeq(transcripts, Truthy)) = Len(chunks)

\* C2: in the chunked path a chunk flagged as a hallucination, when the
\* restart is unavailable or fails, stands as the sentinel string at its
\* ordinal position of the combined transcript.
C2_SentinelWhenRestartFails ==
    (ReturnedChunked /\ result # None /\ restarts = 1 /\ ~restartOk)
        => \A k \in 1..Len(failed_chunks) :
              transcripts[failed_chunks[k]] = SENTINEL

\* C3: in the retry pass, a chunk whose retried text is flagged again gets
\* the sentinel string as its entry, no exception is raised, and the loop
\* goes on with the next failed chunk (or with the combination after the
\* last one).
C3_StillFlaggedGetsSentinel ==
    [][(pc = "retry_pass" /\ requests' # requests
            /\ Flagged(Last(requests').reply))
        => /\ transcripts' =
                [transcripts EXCEPT ![failed_chunks[retryIdx]] = SENTINEL]
           /\ exc' = "none"
           /\ retryIdx' = retryIdx + 1
           /\ pc' = IF retryIdx < Len(failed_chunks)
                    THEN "retry_pass" ELSE "combine"]_vars

\* chunk 1 stayed flagged after the restart, chunk 2 was then retried and
\* recovered, and both are in the returned transcript
C3_Witness ==
    /\ ReturnedChunked
    /\ failed_chunks = <<1, 2>>
    /\ result = SENTINEL \o NEWLINE \o NEWLINE \o TextA
    /\ Len(ReqsOf(1)) = 2
    /\ Flagged(ReqsOf(1)[2].reply)

\* C4: the combined transcript is the blank-line join of the per-chunk
\* results in ascending chunk index, whichever chunks were flagged and
\* retried.
C4_OrderedJoin ==
    ReturnedChunked =>
        LET expected == OrderedUpTo(Len(chunks))
        IN result = IF expected = <<>> THEN None ELSE expected

\* three chunks, the first and the last retried, the middle one accepted at
\* once: the retried results stand around the middle one
C4_Witness ==
    /\ ReturnedChunked
    /\ Len(chunks) = 3
    /\ failed_chunks = <<1, 3>>
    /\ result = TextA \o NEWLINE \o NEWLINE \o TextB
                      \o NEWLINE \o NEWLINE \o SENTINEL

\* C5: a call takes the chunked path iff the probed duration is known and
\* greater than 900 s; at 900 s, below, and for an unknown duration it takes
\* the direct path and the segmenter is not invoked.
C5_ChunkedIffLong ==
    /\ \A f \in 1..Len(path) :
          path[f] = "chunked"
              <=> (probed[f] # DurationNone /\ probed[f] > 900)
    /\ pc = "chunk_audio" => Last(probed) > 900
    /\ pc = "single" => (Last(probed) = DurationNone \/ Last(probed) <= 900)
    /\ (\A f \in 1..Len(path) : path[f] = "direct")
          => (~chunkDirExists /\ chunkFiles = {} /\ chunks = <<>>)

\* a recording of exactly 900 s went the direct path
C5_Witness ==
    /\ pc = "done"
    /\ probed = <<900>>
    /\ path = <<"direct">>
    /\ ~chunkDirExists

\* C6: within one top-level call the backend restart is invoked at most
\* once, every unit (the whole audio or a chunk) is sent to the backend at
\* most twice, and the retry runs with retry_on_hallucination disabled.
C6_RetryBoundedToOne ==
    /\ restarts <= 1
    /\ \A u \in 0..Len(chunks) : Len(ReqsOf(u)) <= 2
    /\ Len(requests) <= 2 * (Len(chunks) + 1)
    /\ Len(calls) <= 2
    /\ Len(calls) = 2 => (calls[2] = FALSE /\ restarts = 1)
    /\ depth = 2 => ~retry_on_hallucination

\* the whole audio was flagged, the backend restarted, the retry flagged
\* again, and the call ended without a second restart
C6_Witness ==
    /\ pc = "done"
    /\ restarts = 1
    /\ Len(ReqsOf(0)) = 2
    /\ Flagged(requests[1].reply)
    /\ Flagged(requests[2].reply)

\* C7: on the direct path, when the returned text is flagged and the retry is
\* disabled, or the restart fails, or the retried text is flagged again,
\* transcribe returns None without raising and writes no transcript file.
C7_DirectFailureIsAbsent ==
    (/\ pc = "done"
     /\ path[1] = "direct"
     /\ Flagged(requests[1].reply)
     /\ \/ ~calls[1]
        \/ restarts = 1 /\ ~restartOk
        \/ /\ path = <<"direct", "direct">>
           /\ Len(requests) = 2
           /\ Flagged(requests[2].reply))
        => /\ result = None
           /\ exc = "none"
           /\ txtFile = NoFile
           /\ txtWrites = 0

\* the restart succeeded and the retried text was flagged again
C7_Witness ==
    /\ pc = "done"
    /\ path = <<"direct", "direct">>
    /\ restartOk
    /\ Len(requests) = 2
    /\ Flagged(requests[1].reply)
    /\ Flagged(requests[2].reply)
    /\ result = None
    /\ txtFile = NoFile

\* C8: on every exit from the chunked path (return, absent result,
\* segmentation error, transport exception in either pass) the chunk files
\* and the chunk directory are gone.
C8_ChunksCleanedUp ==
    (pc \in {"finally", "done"} /\ InChunked)
        => (chunkFiles = {} /\ ~chunkDirExists)

\* a transport exception in the retry pass, after a successful restart
C8_Witness ==
    /\ pc = "done"
    /\ InChunked
    /\ exc = "transport"
    /\ restarts = 1
    /\ restartOk
    /\ chunkFiles = {}

\* C9: a transport failure is never retried and never triggers a restart:
\* from the failing request on, no request is made, no restart is invoked,
\* the exception stays in flight up to the caller, nothing is returned and
\* nothing is persisted.
C9_TransportFailureIsFatal ==
    [][(exc' = "transport")
        => /\ restarts' = restarts
           /\ result' = None
           /\ txtWrites' = 0
           /\ txtFile' = NoFile
           /\ pc' \in {"chunked_finally", "finally", "done"}
           /\ IF exc = "transport"
              THEN requests' = requests
              ELSE /\ Len(requests') = Len(requests) + 1
                   /\ ~Last(requests').reply.ok]_vars

\* the request for the second chunk failed and the call ended with the
\* exception
C9_Witness ==
    /\ pc = "done"
    /\ exc = "transport"
    /\ InChunked
    /\ Len(requests) = 2
    /\ ~requests[2].reply.ok
    /\ restarts = 0

\* C10: {session}.txt is written at most once per top-level call, only when
\* the final text is determined, with the text transcribe returns; no
\* flagged answer of the backend is ever written.
C10_TranscriptWrittenOnce ==
    /\ txtWrites <= 1
    /\ txtWrites = 0 => txtFile = NoFile
    /\ txtWrites = 1 =>
          /\ txtFile = result
          /\ pc \in {"chunked_finally", "finally", "done"}
    /\ (pc = "done" /\ exc = "none" /\ Truthy(result)) => txtFile = result
    /\ \A k \in 1..Len(requests) :
          txtFile = requests[k].reply.text => ~Flagged(requests[k].reply)

\* direct path: the first text was flagged, the retried text was accepted
\* and is the one written
C10_Witness ==
    /\ pc = "done"
    /\ path = <<"direct", "direct">>
    /\ Flagged(requests[1].reply)
    /\ txtWrites = 1
    /\ txtFile = TextA
    /\ result = TextA

\* C11: for every text shorter than 100 characters, the empty text included,
\* _is_hallucination returns false whatever the text holds.
C11_ShortTextNeverFlagged ==
    (Decided /\ Len(detText) < MIN_TEXT_LEN) => detVerdict = "False"

\* nine lines "Thank you." (99 characters, all lines identical) are passed
C11_Witness ==
    /\ detVerdict = "False"
    /\ Len(detText) = 99
    /\ detShape.a.line = ThankYou
    /\ detShape.m = 9
    /\ detShape.n = 0

\* C12: for every text with fewer than 5 non-empty lines, _is_hallucination
\* returns false, whatever bracket or parenthesis tokens the text holds.
C12_FewLinesNeverFlagged ==
    (Decided /\ ShapeLines(detShape) < MIN_LINES) => detVerdict = "False"

\* three lines of six "[ x ]" each (111 characters, 18 tokens) are passed
C12_Witness ==
    /\ detVerdict = "False"
    /\ Len(detText) >= MIN_TEXT_LEN
    /\ ShapeLines(detShape) = 3
    /\ detShape.a.x = 6
    /\ detShape.m = 3
    /\ detShape.n = 0

\* C13 as stated: for every text that is a single line repeated N times with
\* N >= 5, _is_hallucination returns true.
C13_RepeatedLineFlagged ==
    (Decided /\ SingleLineRepeated(detShape)) => detVerdict = "True"

\* C13: for every text of at least 100 characters that is a single non-blank
\* line repeated N times with N >= 5, _is_hallucination returns true.
C13_LongRepeatedLineFlagged ==
    (Decided /\ SingleLineRepeated(detShape)
             /\ Len(detText) >= MIN_TEXT_LEN) => detVerdict = "True"

\* ten lines "Thank you." (110 characters) are flagged
C13_Witness ==
    /\ detVerdict = "True"
    /\ detShape.a.line = ThankYou
    /\ detShape.m = 10
    /\ detShape.n = 0
    /\ Len(detText) = 110

\* C14 as stated: for every text in which 5 or more tokens of one delimiter
\* kind are found, the most frequent of them 5 or more times and more than
\* 50% of that kind, _is_hallucination returns true.
C14_TokenCheckSufficient ==
    (Decided /\ TokensDominated(detShape)) => detVerdict = "True"

\* C14: for every text of at least 100 characters and at least 5 non-empty
\* lines in which 5 or more tokens of one delimiter kind are found, the most
\* frequent of them 5 or more times and more than 50% of that kind,
\* _is_hallucination returns true, whatever the repeated-line check says.
C14_TokenCheckSufficientPastGates ==
    (Decided /\ TokensDominated(detShape)
             /\ Len(detText) >= MIN_TEXT_LEN
             /\ ShapeLines(detShape) >= MIN_LINES) => detVerdict = "True"

\* five "[ x ]" on five lines, three of one wording and two of another (no
\* line has more than 80%), are flagged
C14_Witness ==
    /\ detVerdict = "True"
    /\ detShape.a.x = 1
    /\ detShape.b.x = 1
    /\ detShape.a.line # detShape.b.line
    /\ detShape.m = 3
    /\ detShape.n = 2

\* C15 as stated: for short audio, when the backend returns five identical
\* lines "Thank you." and no restart command is configured, the text is
\* flagged, recovery is attempted, and transcribe returns None together with
\* the recovery-unavailable diagnostic; the text is neither returned nor
\* persisted.
C15_FiveThanksIsAbsent ==
    (/\ pc = "done"
     /\ ~WHISPER_CMD
     /\ calls = <<TRUE>>
     /\ requests =
          <<[unit |-> 0, reply |-> [ok |-> TRUE, text |-> FiveThanks]]>>)
        => /\ restarts = 1
           /\ restartLog = <<"no_cmd">>
           /\ result = None
           /\ exc = "none"
           /\ txtFile = NoFile

\* C15: for short audio, when the backend returns ten identical lines
\* "Thank you." (110 characters) and no restart command is configured, the
\* text is flagged, recovery is attempted, and transcribe returns None
\* together with the recovery-unavailable diagnostic; the text is neither
\* returned nor persisted.
C15_TenThanksIsAbsent ==
    (/\ pc = "done"
     /\ ~WHISPER_CMD
     /\ calls = <<TRUE>>
     /\ requests =
          <<[unit |-> 0, reply |-> [ok |-> TRUE, text |-> LoopText]]>>)
        => /\ restarts = 1
           /\ restartLog = <<"no_cmd">>
           /\ result = None
           /\ exc = "none"
           /\ txtFile = NoFile
           /\ txtWrites = 0

\* the ten-line answer ended in None after the restart was found unavailable
C15_Witness ==
    /\ pc = "done"
    /\ ~WHISPER_CMD
    /\ calls = <<TRUE>>
    /\ requests =
          <<[unit |-> 0, reply |-> [ok |-> TRUE, text |-> LoopText]]>>
    /\ restartLog = <<"no_cmd">>
    /\ result = None

\* C16: the restart is invoked only after some answer was flagged, and when
\* every answer is clean on its first attempt the call returns the accepted
\* result after exactly one request per unit, with no kill and no relaunch.
C16_RestartOnlyAfterFlag ==
    /\ restarts > 0
         => IF path[1] = "direct"
            THEN Flagged(requests[1].reply)
            ELSE /\ failed_chunks # <<>>
                 /\ Flagged(requests[failed_chunks[1]].reply)
    /\ (pc = "done" /\ exc = "none" /\ ~SomeFlagged)
         => /\ restarts = 0
            /\ restartLog = <<>>
            /\ IF InChunked
               THEN /\ Len(requests) = Len(chunks)
                    /\ \A c \in 1..Len(chunks) : Len(ReqsOf(c)) = 1
                    /\ result = IF OrderedUpTo(Len(chunks)) = <<>>
                                THEN None
                                ELSE OrderedUpTo(Len(chunks))
               ELSE /\ Len(requests) = 1
                    /\ result = requests[1].reply.text

\* three chunks, three clean answers, three requests, no restart
C16_Witness ==
    /\ pc = "done"
    /\ exc = "none"
    /\ InChunked
    /\ calls = <<TRUE>>
    /\ Len(chunks) = 3
    /\ Len(requests) = 3
    /\ restarts = 0
    /\ ~SomeFlagged

\* C17: when no restart command is configured, _restart_whisper returns
\* failure at once: no kill, no settle wait, no launch, no health poll.
C17_NoCommandNoSideEffect ==
    ~WHISPER_CMD
        => /\ pc \notin {"restart_kill", "restart_launch", "restart_poll"}
           /\ polls = 0
           /\ \A k \in 1..Len(restartLog) : restartLog[k] = "no_cmd"
           /\ Len(restartLog) = restarts
           /\ RestartReturned => ~restartOk

\* the restart was asked for without a command and has returned failure
C17_Witness ==
    /\ ~WHISPER_CMD
    /\ pc = "after_restart"
    /\ restarts = 1
    /\ ~restartOk
    /\ restartLog = <<"no_cmd">>

\* C18: with a restart command configured, _restart_whisper kills, waits,
\* relaunches and then polls, in that order; it polls at most 10 times, it
\* returns success at the first healthy answer without polling further, and
\* it returns failure exactly when all 10 polls were unhealthy or the launch
\* failed.
C18_RestartSequence ==
    WHISPER_CMD
        => LET log == restartLog
               ps == PollsOf(restartLog)
           IN /\ Len(log) >= 1 => log[1] = "kill"
              /\ Len(log) >= 2 => log[2] = "sleep"
              /\ Len(log) >= 3 => log[3] \in {"launch", "launch_failed"}
              /\ Len(log) >= 4 => log[3] = "launch"
              /\ Len(ps) <= HEALTH_POLLS
              /\ Len(ps) = polls
              /\ \A k \in 1..Len(ps) : ps[k] \in {"healthy", "unhealthy"}
              /\ \A k \in 1..(Len(ps) - 1) : ps[k] = "unhealthy"
              /\ pc = "restart_poll"
                    => (Len(ps) < HEALTH_POLLS
                        /\ \A k \in 1..Len(ps) : ps[k] = "unhealthy")
              /\ RestartReturned
                    => /\ Len(log) >= 3
                       /\ restartOk <=> Last(log) = "healthy"
                       /\ ~restartOk <=>
                             \/ log = <<"kill", "sleep", "launch_failed">>
                             \/ /\ Len(ps) = HEALTH_POLLS
                                /\ \A k \in 1..Len(ps) : ps[k] = "unhealthy"

\* the third poll was the first healthy one and the restart returned success
C18_Witness ==
    /\ WHISPER_CMD
    /\ pc = "after_restart"
    /\ restartOk
    /\ polls = 3
    /\ restartLog =
          <<"kill", "sleep", "launch", "unhealthy", "unhealthy", "healthy">>

\* C19: a recovery failure (no restart command, or a backend not healthy
\* within the poll budget) reaches the caller of transcribe as something
\* other than what a pure transcription failure reaches it as.
C19_RecoveryFailureDistinct ==
    (/\ pc = "done"
     /\ calls = <<TRUE>>
     /\ path = <<"direct">>
     /\ restarts = 1
     /\ ~restartOk)
        => <<result, exc>> # TranscriptionFailureView

\* C20: a failed split is fatal to the chunked path: from the failure on no
\* request is made (no chunk is transcribed, the whole audio is not sent
\* instead), no restart is invoked, the exception stays in flight up to the
\* caller, nothing is returned and no transcript is written.
C20_SegmentationFailureIsFatal ==
    [][(exc' = "segmentation")
        => /\ requests' = requests
           /\ \A k \in 1..Len(requests') : requests'[k].unit = 0
           /\ path' = IF exc = "segmentation" THEN path
                      ELSE Append(path, "chunked")
           /\ restarts' = restarts
           /\ result' = None
           /\ txtWrites' = 0
           /\ txtFile' = NoFile
           /\ pc' \in {"chunked_finally", "finally", "done"}]_vars

\* the split of a long recording failed and the call ended with the
\* exception, no request made
C20_Witness ==
    /\ pc = "done"
    /\ exc = "segmentation"
    /\ path = <<"chunked">>
    /\ requests = <<>>
    /\ txtFile = NoFile

\* C24 as stated: in the chunked path each flagged chunk gets its own
\* recovery attempt: one restart is invoked per chunk flagged on its first
\* transcription, and after a successful restart the chunk is retried once.
C24_RestartPerFlaggedChunk ==
    ReturnedChunkedTop
        => /\ restarts = Cardinality(FlaggedChunks)
           /\ restartOk => \A c \in FlaggedChunks : Len(ReqsOf(c)) = 2

\* C24: in the chunked path the flagged chunks share one recovery attempt:
\* when some chunk was flagged on its first transcription the restart is
\* invoked exactly once for all of them, and when it succeeds every flagged
\* chunk is retried exactly once, whatever the other retries gave; a chunk
\* that was not flagged is never retried.
C24_OneRestartForAllFlagged ==
    ReturnedChunkedTop
        => /\ restarts = IF FlaggedChunks # {} THEN 1 ELSE 0
           /\ \A c \in 1..Len(chunks) :
                 Len(ReqsOf(c)) =
                    IF c \in FlaggedChunks /\ restartOk THEN 2 ELSE 1

\* two chunks were flagged, one restart was made, both were retried: the
\* first recovered, the second was flagged again
C24_Witness ==
    /\ ReturnedChunkedTop
    /\ restarts = 1
    /\ restartOk
    /\ failed_chunks = <<1, 2>>
    /\ Len(ReqsOf(1)) = 2
    /\ Len(ReqsOf(2)) = 2
    /\ ~Flagged(ReqsOf(1)[2].reply)
    /\ Flagged(ReqsOf(2)[2].reply)

\* C25: backend access is strictly sequential: at most one transcription
\* request is in flight at any time, the request for a chunk is sent only
\* after every earlier chunk was answered, and no request is in flight while
\* _restart_whisper kills, relaunches or polls the backend.
C25_SequentialBackendAccess ==
    /\ Cardinality(inFlight) <= 1
    /\ pc \in {"restart", "restart_kill", "restart_launch", "restart_poll",
               "after_restart"} => inFlight = {}
    /\ pc = "first_pass"
         => \A u \in inFlight : \A c \in 1..(u - 1) : ReqsOf(c) # <<>>
    /\ (path = <<"chunked">> /\ pc \in {"first_pass", "retry_check"})
         => \A k \in 1..Len(requests) : requests[k].unit = k

\* the request for chunk 2 is in flight, chunk 1 has its answer
C25_Witness ==
    /\ pc = "first_pass"
    /\ path = <<"chunked">>
    /\ inFlight = {2}
    /\ Len(requests) = 1
    /\ requests[1].unit = 1

\* C26: the thresholds are strict: for a text of at least 100 characters and
\* at least 5 non-empty lines whose most frequent line has at most 80% of
\* the lines, and whose bracket tokens and parenthesis tokens each have a
\* most frequent token with fewer than 5 occurrences or at most 50% of the
\* tokens of its kind, _is_hallucination returns false.
C26_ThresholdsAreStrict ==
    (/\ Decided
     /\ Len(detText) >= MIN_TEXT_LEN
     /\ ShapeLines(detShape) >= MIN_LINES
     /\ 5 * ShapeTopLine(detShape) <= 4 * ShapeLines(detShape)
     /\ ~TokensDominated(detShape)) => detVerdict = "False"

\* four lines of one wording with "[ x ]" and one line with "[ z ]": the top
\* line has exactly 80%, the top token occurs 4 times, and the text passes
C26_Witness ==
    /\ detVerdict = "False"
    /\ detShape.m = 4
    /\ detShape.n = 1
    /\ detShape.a.x = 1
    /\ detShape.b.z = 1
    /\ 5 * ShapeTopLine(detShape) = 4 * ShapeLines(detShape)
    /\ Len(detText) >= MIN_TEXT_LEN

\* C29: no flagged text leaves the pipeline: when transcribe has ended, the
\* value it returned is None, or a backend text the detector did not flag,
\* or the join of such texts and sentinels; {session}.txt is absent or holds
\* the returned value.
C29_NoFlaggedTextLeaves ==
    pc = "done"
        => /\ \/ result = None
              \/ /\ ~InChunked
                 /\ result \in CleanTexts
              \/ /\ InChunked
                 /\ result = Combine(transcripts)
                 /\ \A i \in 1..Len(transcripts) :
                       transcripts[i] \in {None, SENTINEL} \cup CleanTexts
           /\ txtFile = NoFile \/ txtFile = result

\* chunk 1 was accepted, chunk 2 was flagged twice: the transcript holds the
\* accepted text and the sentinel
C29_Witness ==
    /\ pc = "done"
    /\ transcripts = <<TextA, SENTINEL>>
    /\ result = TextA \o NEWLINE \o NEWLINE \o SENTINEL
    /\ txtFile = result
    /\ Flagged(requests[2].reply)

\* C30: transcribe removes the temporary WAV file of every frame on every
\* exit: each active frame has exactly its own temp file, and when the
\* top-level call has ended (value, None or exception) none remains.
C30_TempFilesRemoved ==
    /\ tmpFiles = 1..depth
    /\ pc = "done" => tmpFiles = {}

\* the inner retry call ended with a transport exception and both temp
\* files are gone
C30_Witness ==
    /\ pc = "done"
    /\ Len(calls) = 2
    /\ exc = "transport"
    /\ tmpFiles = {}

C28_ExactlyOneBackend ==
    (RestartReturned /\ restartOk) => whisperProcs = 1

\* C21: while record() is in its loop and a save has been completed, the
\* session's .partial.wav is at every instant a complete WAV of the audio
\* of the most recent completed save, a save in progress included.
C21_PartialAlwaysComplete ==
    (StreamOpen /\ saved # <<>>)
        => partialFile[session] = _chunks_to_wav(saved)

\* C22: when record() has ended it has returned, not raised: (wav, session)
\* when audio was captured and (None, None) otherwise, with the previous
\* SIGINT handler restored.
C22_RecordReturns ==
    recPc \in {"returned", "raised"}
        => /\ recExc = "none"
           /\ sigintHandler = "default"
           /\ recResult = IF _chunks # <<>>
                          THEN <<_chunks_to_wav(_chunks), session>>
                          ELSE NoRecording

\* C23: every call of recover_partial: with a session whose partial file
\* exists it returns the file's bytes and the session and renames the file
\* to {session}.wav; with a session whose partial does not exist it returns
\* (None, None) and changes no file, so a second call for the same session
\* returns (None, None); with no session it recovers a partial whose
\* modification time no other partial exceeds, or nothing when there is no
\* partial.
C23_RecoverPartial ==
    /\ \A i \in 1..Len(recoverLog) :
          LET e == recoverLog[i]
              had == Partials(e.partialBefore)
          IN /\ (e.arg # SessionNone /\ e.arg \in had)
                   => RecoveredAs(e, e.arg)
             /\ (e.arg # SessionNone /\ e.arg \notin had)
                   => NothingRecovered(e)
             /\ (e.arg = SessionNone /\ had = {}) => NothingRecovered(e)
             /\ (e.arg = SessionNone /\ had # {})
                   => \E s \in had :
                         /\ \A t \in had :
                               e.mtimeBefore[s] >= e.mtimeBefore[t]
                         /\ RecoveredAs(e, s)
             /\ \A j \in 1..(i - 1) :
                   (recoverLog[j].arg = e.arg /\ e.arg # SessionNone)
                       => e.ret = NoRecording
             /\ i > 1 => /\ e.partialBefore = recoverLog[i - 1].partialAfter
                         /\ e.finalBefore = recoverLog[i - 1].finalAfter
    /\ recoverLog # <<>>
          => /\ partialFile = recoverLog[Len(recoverLog)].partialAfter
             /\ finalFile = recoverLog[Len(recoverLog)].finalAfter

\* two partials of different age: the call without a session recovered the
\* newer one, and recovering that session again returned (None, None)
C23_Witness ==
    /\ Len(recoverLog) = 2
    /\ recoverLog[1].arg = SessionNone
    /\ \E s, t \in Partials(recoverLog[1].partialBefore) :
          /\ recoverLog[1].mtimeBefore[s] > recoverLog[1].mtimeBefore[t]
          /\ recoverLog[1].ret = <<recoverLog[1].partialBefore[s], s>>
          /\ recoverLog[2].arg = s
          /\ partialFile[s] = NoFile
          /\ finalFile[s] = recoverLog[1].partialBefore[s]
    /\ recoverLog[2].ret = NoRecording

C31_ClaudeOnlyWithTranscript ==
    /\ Called("process_with_claude")
          => /\ Truthy(cmdWav)
             /\ cmdSession # SessionNone
             /\ Truthy(transcript)
    /\ (Called("_rename_session_files") \/ Called("_save_to_notion"))
          => Called("process_with_claude")
    /\ (~Truthy(cmdWav) \/ ~Truthy(transcript)) => mainPc # "done"
    /\ mainPc = "exited"
          => /\ exitStatus = 1
             /\ ~Called("process_with_claude")
             /\ ~Called("_rename_session_files")
             /\ ~Called("_save_to_notion")

\* a recovery that found an empty partial file exited with status 1 before
\* transcribing
C31_Witness ==
    /\ command = "recover"
    /\ mainPc = "exited"
    /\ cmdWav = EmptyFile
    /\ cmdSession # SessionNone
    /\ mainLog = <<"check_requirements", "recover_partial">>

\* C32: _rename_session_files never overwrites an existing file: every file
\* that was in TEMP_DIR before the call is still there afterwards, under
\* its old or its new name.
C32_NeverOverwrites ==
    \A x \in FileNames :
       Exists(dirBefore, x) => \E y \in FileNames : dirFiles[y] = dirBefore[x]

\* C33: after config set with a valid key every line of the env file that
\* is not an assignment of the key's env var is where it was, unchanged;
\* each assignment of the env var is replaced by the new one, and when there
\* was none the new assignment is appended as the last line. With an
\* invalid key the command exits with status 1 and the file is unchanged.
C33_OnlyTargetKeyChanges ==
    /\ envPc = "done"
          => LET var == CONFIG_KEYS[envKey]
                 new == EnvEntry(var, envValue)
                 had == \E i \in 1..Len(envBefore) :
                           AssignsTo(envBefore[i], var)
             IN /\ envExists
                /\ Len(envLines) = Len(envBefore) + (IF had THEN 0 ELSE 1)
                /\ \A i \in 1..Len(envBefore) :
                      envLines[i] = IF AssignsTo(envBefore[i], var) THEN new
                                    ELSE envBefore[i]
                /\ ~had => envLines[Len(envLines)] = new
    /\ envPc = "exited"
          => /\ envExit = 1
             /\ envKey \notin DOMAIN CONFIG_KEYS
             /\ envLines = envBefore

\* the file held a comment naming the key, an assignment of the key and an
\* assignment of a key that starts with it: only the second was replaced
C33_Witness ==
    /\ envPc = "done"
    /\ envKey = "output_dir"
    /\ envBefore = << <<"#", " ", "A", "=", "1">>, <<" ", "A", " ", "=", "o">>,
                      <<"A", "B", "=", "A">> >>
    /\ envLines = << <<"#", " ", "A", "=", "1">>,
                     <<"A", "=", "\"", "v", "\"">>,
                     <<"A", "B", "=", "A">> >>

\* C35: two dialogs for the same event id are at least 24 hours apart, and
\* while a dialog is shown its id is in the persisted prompted set, so that
\* a later run within 24 hours skips it however the dialog ended.
C35_DialogOncePerEvent ==
    /\ \A id \in EventIds :
          \A i, j \in 1..Len(shownTimes[id]) :
             i < j => shownTimes[id][j] - shownTimes[id][i] >= REMEMBER_SECS
    /\ monPc = "dialog"
          => /\ promptedExists
             /\ events[evIdx] \in
                   load_prompted(promptedExists, promptedData, monNow)

\* e1's dialog failed or timed out in a run at time 0; a run half a day
\* later found e1 again and finished without showing a dialog
C35_Witness ==
    /\ monPc = "returned"
    /\ monNow = ClockStep
    /\ events = <<"e1">>
    /\ runLog = <<>>
    /\ shownTimes["e1"] = <<0>>
    /\ "e1" \in loaded

\* C36: a run starts at most one recording, and only as the answer to its
\* last dialog; every earlier dialog of the run was answered otherwise and
\* the run went on. The dialogs of a run are those of its events that were
\* not prompted before, each once and in order, up to the one answered with
\* Record: the events after it were neither prompted nor added to the
\* persisted set. A run that started no recording prompted all of them.
C36_OneRecordingPerRun ==
    LET due == FirstUnprompted(events, loaded)
        n == Len(runLog)
    IN /\ started <= 1
       /\ n <= Len(due)
       /\ runLog = SubSeq(due, 1, n)
       /\ \A i \in 1..Len(answers) :
             answers[i] = "Record" <=> (started = 1 /\ i = n)
       /\ started = 1 => monPc = "returned"
       /\ n > 0 => PersistedIds = loaded \cup {runLog[i] : i \in 1..n}
       /\ (monPc = "returned" /\ started = 0) => n = Len(due)

\* a run with two new events: the first dialog timed out, the second was
\* answered with Record
C36_Witness ==
    /\ monPc = "returned"
    /\ started = 1
    /\ runLog = <<"e1", "e2">>
    /\ answers = <<"gave up", "Record">>

\* a run whose first dialog was answered with Record left the second event
\* unprompted
C36_WitnessBreak ==
    /\ monPc = "returned"
    /\ started = 1
    /\ events = <<"e1", "e2">>
    /\ runLog = <<"e1">>
    /\ "e2" \notin PersistedIds

\* C37: load_prompted returns an id only if that event's dialog was shown
\* less than 86400 seconds ago.
C37_RememberedFor24Hours ==
    \A id \in load_prompted(promptedExists, promptedData, monNow) :
       /\ shownTimes[id] # <<>>
       /\ monNow - shownTimes[id][Len(shownTimes[id])] < REMEMBER_SECS

\* C38: the to_do and bulleted_list_item blocks that _text_to_blocks returns
\* are, in order, an unchecked to_do for every line starting with "- [ ] ",
\* a checked to_do for every line starting with "- [x] " or "- [X] ", and a
\* bulleted_list_item for every other line starting with "- " or "* ".
C38_CheckboxesBecomeToDo ==
    notionPc = "done"
       => ListEntries(notionBlocks) = WantedEntries(notionContent)

====
